---- MODULE Spec2Model ----
(***************************************************************************)
(* resocks: key-derived mutual TLS (pbtls) and the multiplexed relay/proxy *)
(* tunnel (proxyrelay, listen command).                                    *)
(*                                                                         *)
(* The specifications of the module:                                       *)
(*   SpecTLS  the TLS configuration builders and one handshake between a   *)
(*            server and a client configuration (pure functions applied to *)
(*            inputs drawn from small sets);                               *)
(*   Spec     the listener's relay-accept loop, the proxy coordinator, the *)
(*            relay coordinator and the per-connection forwarding tasks    *)
(*            (SpecSession, SpecCall: one relay connection);               *)
(*   SpecLogger, SpecControl  the control channel: the relay's logger and  *)
(*            the proxy's reader of the frames;                            *)
(*   SpecRelayCmd  the relay command's dial loop and one relay session;    *)
(*   SpecKey  connection keys as bytes: String, ParseConnectionKey and the *)
(*            fields of the key-derived CA;                                *)
(*   SpecConfig  the TLS configurations built from the bytes of a key and  *)
(*            from a key text: pbtls, clientTLSConfig, serverTLSConfig;    *)
(*   SpecGenerate  GenerateConnectionKey, draw by draw;                    *)
(*   SpecSetup  runLocalSocksProxy and runRemoteProxyRelay from their      *)
(*            first statement to the value they return;                    *)
(*   SpecCoordinators  one relay connection where both coordinators are    *)
(*            given a callback or nil, the control-channel reader can fail *)
(*            and the relay's logger writes while the relay serves;        *)
(*   SpecInvocations  the tasks of one call of RunProxyWithEventCallback   *)
(*            and their calls of the callback, entry and return apart;     *)
(*   SpecAddr  withDefaultPort on addresses as sequences of characters;    *)
(*   SpecUI   the terminal UI's model and its Update.                      *)
(***************************************************************************)
EXTENDS Integers, Sequences, FiniteSets, TLC

----------------------------------------------------------------------------
(* Bounds of the model *)

\* connection keys are 0..MaxKey; key 0 stands for the all-zero key
MaxKey == 2
\* host names are 0..MaxName; odd names are public-key IDs, even names are
\* free names such as "test"
MaxName == 5

----------------------------------------------------------------------------
(* pbtls: connection keys, the key-derived CA, leaf certificates, configs *)

Keys == 0..MaxKey
Names == 0..MaxName
NoName == -1

\* isZero: the all-zero key
isZero(key) == key = 0

\* checkKeyBytes: the length is fixed by the ConnectionKey type, so only the
\* all-zero check can fail for a ConnectionKey value
checkKeyBytes(key) == ~isZero(key)

\* ConnectionKey.PublicKey: the ed25519 public key of the seed, base64
\* encoded; an injective map from keys to (odd) names
PublicKey(key) == 2 * key + 1

\* the serial number generateCA gives every CA
CASerial == 1337

\* a CA whose key pair is derived from the seed, self-signed
CAFromSeed(seed, key) ==
    IF ~checkKeyBytes(key)
    THEN [ok |-> FALSE]
    ELSE [ok |-> TRUE,
          SerialNumber |-> CASerial,
          CommonName |-> PublicKey(seed),
          pub |-> PublicKey(seed),       \* privateKey.Public()
          key |-> seed,                  \* privateKey
          signedBy |-> seed,             \* signed with privateKey
          IsCA |-> TRUE,
          ExtKeyUsage |-> {"ClientAuth", "ServerAuth"}]

\* (mutant) the CA key pair does not depend on the connection key
generateCA_FixedSeed(key) == CAFromSeed(1, key)

\* generateCA: ed25519.NewKeyFromSeed(key[:]) signs the CA template
generateCA(key) == CAFromSeed(key, key)

\* generateCertificate: a fresh leaf for hostname, signed with the CA key
generateCertificate(ca, caKey, hostname, usage) ==
    [DNSNames |-> {hostname},
     ExtKeyUsage |-> {usage},
     issuer |-> ca.CommonName,
     signedBy |-> caKey]

NoCert == [DNSNames |-> {}, ExtKeyUsage |-> {}, issuer |-> NoName, signedBy |-> 0]

\* ServerTLSConfigForHostname
ServerTLSConfigForHostname(key, hostname) ==
    LET ca == generateCA(key) IN
    IF ~ca.ok
    THEN [ok |-> FALSE]
    ELSE [ok |-> TRUE,
          ClientAuth |-> "RequireAndVerifyClientCert",
          ClientCAs |-> {ca},
          Certificate |-> generateCertificate(ca, ca.key, hostname, "ServerAuth"),
          MinVersion |-> 13]

\* ServerTLSConfig
ServerTLSConfig(key) == ServerTLSConfigForHostname(key, PublicKey(key))

\* ClientTLSConfigForClientName: the leaf is issued for key.PublicKey(), the
\* clientName parameter is not used by the code
ClientTLSConfigForClientName(key, clientName) ==
    LET ca == generateCA(key) IN
    IF ~ca.ok
    THEN [ok |-> FALSE]
    ELSE [ok |-> TRUE,
          RootCAs |-> {ca},
          Certificate |-> generateCertificate(ca, ca.key, PublicKey(key), "ClientAuth"),
          ServerName |-> PublicKey(key),
          InsecureSkipVerify |-> FALSE,
          MinVersion |-> 13]

\* ClientTLSConfig
ClientTLSConfig(key) == ClientTLSConfigForClientName(key, PublicKey(key))

(* crypto/tls as the tests and the commands use it: chain verification of   *)
(* the peer's leaf against a pool, for a usage and (client side) a name.    *)
VerifyCert(cert, pool, usage, name) ==
    /\ \E ca \in pool :
          /\ ca.IsCA
          /\ usage \in ca.ExtKeyUsage
          /\ cert.issuer = ca.CommonName
          /\ PublicKey(cert.signedBy) = ca.pub   \* the signature verifies
    /\ usage \in cert.ExtKeyUsage
    /\ name = NoName \/ name \in cert.DNSNames

\* the outcome of tls.Server(pipeA, serverConfig) against
\* tls.Client(pipeB, clientConfig): the client verifies the server's leaf
\* first, then the server verifies the client's
Handshake(serverConfig, clientConfig) ==
    LET clientAccepts ==
            \/ clientConfig.InsecureSkipVerify
            \/ VerifyCert(serverConfig.Certificate, clientConfig.RootCAs,
                          "ServerAuth", clientConfig.ServerName)
        serverAccepts ==
            \/ serverConfig.ClientAuth = "NoClientCert"
            \/ /\ clientConfig.Certificate # NoCert
               /\ VerifyCert(clientConfig.Certificate, serverConfig.ClientCAs,
                             "ClientAuth", NoName)
    IN  IF serverConfig.MinVersion # 13 \/ clientConfig.MinVersion # 13
        THEN "protocol_version"
        ELSE IF ~clientAccepts THEN "client_verification_error"
        ELSE IF ~serverAccepts THEN "server_verification_error"
        ELSE "ok"

----------------------------------------------------------------------------
VARIABLES
    tlsPc,        \* "idle" | "built" | "done" | "config_error"
    tlsKeys,      \* <<server key, client key>>
    tlsServer,    \* the server configuration
    tlsClient,    \* the client configuration
    tlsResult,    \* the handshake outcome
    tlsData       \* TRUE when the test data written by the server was read

tlsVars == <<tlsPc, tlsKeys, tlsServer, tlsClient, tlsResult, tlsData>>

NoConfig == [ok |-> FALSE]

TLSInit ==
    /\ tlsPc = "idle"
    /\ tlsKeys = <<0, 0>>
    /\ tlsServer = NoConfig
    /\ tlsClient = NoConfig
    /\ tlsResult = "none"
    /\ tlsData = FALSE

\* the test set-up: the client configuration from clientKey, optionally with
\* ServerName overridden; the server configuration from serverKey, either
\* ServerTLSConfig or ServerTLSConfigForHostname(serverKey, hostname)
TLSConfigure(serverKey, clientKey, hostname, serverName) ==
    /\ tlsPc = "idle"
    /\ LET c0 == ClientTLSConfig(clientKey)
           c  == IF c0.ok /\ serverName # NoName
                 THEN [c0 EXCEPT !.ServerName = serverName] ELSE c0
           s  == IF hostname = NoName THEN ServerTLSConfig(serverKey)
                 ELSE ServerTLSConfigForHostname(serverKey, hostname)
       IN  /\ tlsServer' = s
           /\ tlsClient' = c
           /\ tlsPc' = IF s.ok /\ c.ok THEN "built" ELSE "config_error"
    /\ tlsKeys' = <<serverKey, clientKey>>
    /\ UNCHANGED <<tlsResult, tlsData>>

\* the server writes the test data, the client reads it
TLSConnect ==
    /\ tlsPc = "built"
    /\ tlsResult' = Handshake(tlsServer, tlsClient)
    /\ tlsData' = (tlsResult' = "ok")
    /\ tlsPc' = "done"
    /\ UNCHANGED <<tlsKeys, tlsServer, tlsClient>>

TLSNext ==
    \/ \E k1 \in Keys, k2 \in Keys, h \in Names \cup {NoName}, n \in Names \cup {NoName} :
          TLSConfigure(k1, k2, h, n)
    \/ TLSConnect


----------------------------------------------------------------------------
(* proxyrelay and the listen command *)

\* relay connections dialled in one run of the listener
MaxRelayConns == 2
\* local connections accepted by the forwarding listener per relay connection
MaxLocalConns == 2
\* local connections per relay connection when the listener serves several
\* relay connections in a row
LoopLocalConns == 1

Handlers == 1..MaxLocalConns

\* the key the listener was started with (any valid key)
ListenerKey == 1

\* event types
TypeError == "error"
TypeRelayConnected == "relay connected"
TypeRelayDisconnected == "relay disconnected"
TypeSOCKS5Active == "SOCKS5 server active"
TypeSOCKS5Inactive == "SOCKS5 server inactive"
TypeSOCKS5ConnectionOpened == "SOCKS5 connection opened"
TypeSOCKS5ConnectionClosed == "SOCKS5 connection closed"

\* Event{Type, Data}: Data is the message as the sequence of its parts
\* ("a: b: c" is <<"a", "b", "c">>, "" is <<>>); conn is not a field of the
\* program's Event, it records which local connection emitted the event
Event(type, data, conn) == [Type |-> type, Data |-> data, conn |-> conn]

\* the callback given to RunProxyWithEventCallback and
\* RunRelayWithEventCallback: "set" | "nil"
VARIABLE callback

cbVars == <<callback>>

\* the coordinators are given a callback
CallbackInit == callback = "set"

\* if callback != nil { callback(ev) } for each of evs, appended to the
\* events received so far
Invoke(received, evs) == IF callback # "nil" THEN received \o evs ELSE received

\* errors: nil, a new error, fmt.Errorf("prefix: %w", err); closed is
\* errors.Is(err, net.ErrClosed)
NoErr == [parts |-> <<>>, closed |-> FALSE]
NewErr(msg) == [parts |-> <<msg>>, closed |-> FALSE]
Wrap(prefix, err) == [parts |-> <<prefix>> \o err.parts, closed |-> err.closed]

\* errors the libraries return
ErrSessionShutdown == NewErr("session shutdown")
ErrNetClosed == [parts |-> <<"use of closed network connection">>, closed |-> TRUE]
ErrCertificateVerification == NewErr("tls: failed to verify certificate")
ErrRemoteAlert == NewErr("remote error: tls: bad certificate")
ErrWriteTimeout == NewErr("i/o deadline reached")
ErrBrokenPipe == NewErr("write: broken pipe")
ErrStreamClosed == NewErr("stream closed")
ErrAddrInUse == NewErr("bind: address already in use")
ErrAccept == NewErr("accept: too many open files")

\* conn.RemoteAddr() of local connection h: a *net.TCPAddr, as the
\* forwarding listener is a TCP listener
PeerAddr(h) ==
    IF h = 1 THEN [net |-> "tcp", ip |-> "127.0.0.1"]
    ELSE [net |-> "tcp", ip |-> "10.0.0.2"]

\* formatAddr
formatAddr(addr) ==
    IF addr.net \in {"udp", "tcp"} THEN <<addr.ip>> ELSE <<"unknown">>

\* clientTLSConfig of the relay command, for a parsed connection key
relayTLSConfig(key, insecure) ==
    LET cfg == ClientTLSConfig(key) IN
    IF insecure /\ cfg.ok
    THEN [cfg EXCEPT !.InsecureSkipVerify = TRUE, !.ServerName = NoName]
    ELSE cfg

----------------------------------------------------------------------------
(* the control channel: remoteLogger.Write on the relay's side,              *)
(* handleErrorNotificationConnection on the proxy's side                     *)

\* log lines written per experiment
MaxLines == 2
\* lines logged while the tunnel runs
MaxServedLines == 1
\* bytes written to the control stream when the proxy reads it
MaxBytes == 11

\* bytes are 0..255; "\n", "a", "b" and the prefix "[ERR] socks: "
NL == 10
ErrPrefix == <<91, 69, 82, 82, 93, 32, 115, 111, 99, 107, 115, 58, 32>>

\* the lines the SOCKS5 server's logger hands to Write (log.Logger ends every
\* line with a newline), and lines with more newlines, without the prefix,
\* with the prefix twice and with nothing else
LogLines ==
    { ErrPrefix \o <<97>> \o <<NL>>,
      ErrPrefix \o <<97, 98>> \o <<NL>>,
      <<97, 98>> \o <<NL>>,
      <<NL>> \o ErrPrefix \o <<98>> \o <<NL, NL>>,
      ErrPrefix \o ErrPrefix \o <<97>> \o <<NL>>,
      ErrPrefix \o <<NL>> }

RECURSIVE TrimLeft(_, _)
TrimLeft(b, c) == IF b # <<>> /\ Head(b) = c THEN TrimLeft(Tail(b), c) ELSE b

RECURSIVE TrimRight(_, _)
TrimRight(b, c) ==
    IF b # <<>> /\ b[Len(b)] = c THEN TrimRight(SubSeq(b, 1, Len(b) - 1), c) ELSE b

\* bytes.Trim(b, "\n")
Trim(b, c) == TrimRight(TrimLeft(b, c), c)

HasPrefix(b, prefix) ==
    Len(b) >= Len(prefix) /\ SubSeq(b, 1, Len(prefix)) = prefix

\* bytes.TrimPrefix
TrimPrefix(b, prefix) ==
    IF HasPrefix(b, prefix) THEN SubSeq(b, Len(prefix) + 1, Len(b)) ELSE b

\* binary.BigEndian.PutUint32(length, uint32(n)), for the lengths a model
\* value can have (below 2^31, where uint32(n) = n)
PutUint32(n) ==
    <<(n \div 16777216) % 256, (n \div 65536) % 256, (n \div 256) % 256, n % 256>>

\* binary.BigEndian.Uint32
Uint32(b) == b[1] * 16777216 + b[2] * 65536 + b[3] * 256 + b[4]

\* (mutant) the line is sent as it is
remoteLoggerMsg_NoTrim(b) == b

\* remoteLogger.Write: the message of a line
remoteLoggerMsg(b) == TrimPrefix(Trim(b, NL), ErrPrefix)

\* remoteLogger.Write: the bytes handed to Conn.Write
remoteLoggerFrame(b) == PutUint32(Len(remoteLoggerMsg(b))) \o remoteLoggerMsg(b)

\* a buffer of make([]byte, size) after one Read stored bytes at its start:
\* the bytes, then pad zero bytes
Buffer(size, bytes) == [bytes |-> bytes, pad |-> size - Len(bytes)]

\* the buffer holds exactly these bytes
BufferIs(buf, bytes) == buf.pad = 0 /\ buf.bytes = bytes

\* the 4-byte buffer as a sequence
LengthBytes(bytes) == bytes \o SubSeq(<<0, 0, 0, 0>>, 1, 4 - Len(bytes))

\* Data of the events of the control channel: what, the text, the error
CtlData(kind, buf, err) == [kind |-> kind, buf |-> buf, err |-> err]

VARIABLES
    ctlLines,       \* the lines handed to remoteLogger.Write, in order
    ctlFrames,      \* per line, the bytes Conn.Write accepted (<<>>: none)
    ctlWire,        \* bytes written to the stream, not yet at the proxy
    ctlBuf,         \* bytes the proxy's stream has received, not yet read
    ctlEnd,         \* the stream: "open" | "eof" | "reset"
    ctlRelayEvents, \* the events of the relay's callback
    rdPc,           \* handleErrorNotificationConnection: "len" | "msg" | "done"
    rdSize,         \* len(msg) of the reader's current message buffer
    ctlEvents       \* the events of the proxy's callback

ctlVars == <<ctlLines, ctlFrames, ctlWire, ctlBuf, ctlEnd, ctlRelayEvents,
             rdPc, rdSize, ctlEvents>>

\* the control stream is open on both sides, the reader waits for a length
CtlInit ==
    /\ ctlLines = <<>>
    /\ ctlFrames = <<>>
    /\ ctlWire = <<>>
    /\ ctlBuf = <<>>
    /\ ctlEnd = "open"
    /\ ctlRelayEvents = <<>>
    /\ rdPc = "len"
    /\ rdSize = 0
    /\ ctlEvents = <<>>

----------------------------------------------------------------------------
(* the relay command: runRemoteProxyRelay, connectBackAndRelay and           *)
(* RunRelayWithEventCallback                                                 *)

\* dial attempts per run of the command
MaxDials == 3

\* --reconnect-after: 0 (the default) and two intervals
ReconnectIntervals == {0, 1, 3}

\* --key: none, a string ParseConnectionKey rejects, a valid key
ConnectionKeys == {"", "invalid", "valid"}

ErrKeyRequired == NewErr("connection key is required (--key)")
ErrParseKey == NewErr("decode connection key")
ErrDial == NewErr("connect: connection refused")

\* clientTLSConfig: the error it returns
clientTLSConfigErr(connectionKey, insec) ==
    IF ~insec /\ connectionKey = "" THEN ErrKeyRequired
    ELSE IF insec /\ connectionKey = "" THEN NoErr
    ELSE IF connectionKey = "invalid" THEN Wrap("parse connection key", ErrParseKey)
    ELSE NoErr

VARIABLES
    cmdKey,         \* runRemoteProxyRelay's argument connectionKey
    cmdInsecure,    \* runRemoteProxyRelay's argument insecure
    reconnectAfter, \* runRemoteProxyRelay's argument
    cmdPc,          \* "idle" | "config" | "dial" | "accept" | "serve" | "loop" | "sleep" | "returned"
    cmdDials,       \* calls of tls.DialWithDialer so far
    cmdSleeps,      \* the arguments of the calls of time.Sleep so far
    cmdConn,        \* the dialled connection: "none" | "open" | "closed"
    cmdSess,        \* yamuxServer: "none" | "open" | "closed"
    cmdPending,     \* the peer has opened a stream that is not yet accepted
    cmdCtl,         \* errConn: "none" | "open" | "closed"
    cmdWatchers,    \* context watchers whose context is cancelled, still to run
    cmdErr,         \* err of connectBackAndRelay
    cmdRet          \* what runRemoteProxyRelay returned

cmdVars == <<cmdKey, cmdInsecure, reconnectAfter, cmdPc, cmdDials, cmdSleeps,
             cmdConn, cmdSess, cmdPending, cmdCtl, cmdWatchers, cmdErr, cmdRet>>

\* nothing dialled yet
CmdState ==
    /\ cmdDials = 0
    /\ cmdSleeps = <<>>
    /\ cmdConn = "none"
    /\ cmdSess = "none"
    /\ cmdPending = FALSE
    /\ cmdCtl = "none"
    /\ cmdWatchers = 0
    /\ cmdErr = NoErr
    /\ cmdRet = NoErr

\* the relay command is not run
CmdInit ==
    /\ cmdKey = ""
    /\ cmdInsecure = FALSE
    /\ reconnectAfter = 0
    /\ cmdPc = "idle"
    /\ CmdState

\* runRemoteProxyRelay is called
CmdRunInit ==
    /\ cmdKey \in ConnectionKeys
    /\ cmdInsecure \in BOOLEAN
    /\ reconnectAfter \in ReconnectIntervals
    /\ cmdPc = "config"
    /\ CmdState

----------------------------------------------------------------------------
(* pbtls on the bytes of the key: ParseConnectionKey, ConnectionKey.String,  *)
(* ConnectionKey.PublicKey and the fields of the CA certificate              *)

\* ed25519.SeedSize, the length of a ConnectionKey
SeedSize == 32

\* the values of the first and of the last two bytes of the keys of the
\* experiment; the other bytes are 0
SeedBytes == {0, 165, 255}

\* a ConnectionKey
KeyOf(a, b, c) ==
    [i \in 1..SeedSize |->
        IF i = 1 THEN a ELSE IF i = SeedSize - 1 THEN b ELSE IF i = SeedSize THEN c ELSE 0]

KeySeeds == {KeyOf(a, b, c) : a \in SeedBytes, b \in SeedBytes, c \in SeedBytes}

\* (mutant) only the empty slice counts as zero
isZeroBytes_EmptyOnly(b) == Len(b) = 0

\* isZero on a byte slice
isZeroBytes(b) == \A i \in 1..Len(b) : b[i] = 0

\* (mutant) the length is not checked
checkKeyBytesErr_AnyLength(b) ==
    IF isZeroBytes(b) THEN NewErr("invalid all-zero connection key") ELSE NoErr

\* checkKeyBytes on a byte slice: the error
checkKeyBytesErr(b) ==
    IF Len(b) # SeedSize THEN NewErr("key has the wrong number of bytes")
    ELSE IF isZeroBytes(b) THEN NewErr("invalid all-zero connection key")
    ELSE NoErr

\* a string of base64 text is the sequence of the indices (0..63) of its
\* characters in the alphabet A-Z a-z 0-9 + /; PadChar stands for '='
PadChar == 64

\* (mutant) base64.StdEncoding: padded to a multiple of four characters
RECURSIVE EncodeToString_Padded(_)
EncodeToString_Padded(b) ==
    IF Len(b) = 0 THEN <<>>
    ELSE IF Len(b) = 1 THEN <<b[1] \div 4, (b[1] % 4) * 16, PadChar, PadChar>>
    ELSE IF Len(b) = 2
         THEN <<b[1] \div 4, (b[1] % 4) * 16 + b[2] \div 16, (b[2] % 16) * 4, PadChar>>
    ELSE <<b[1] \div 4, (b[1] % 4) * 16 + b[2] \div 16,
           (b[2] % 16) * 4 + b[3] \div 64, b[3] % 64>>
         \o EncodeToString_Padded(SubSeq(b, 4, Len(b)))

\* base64.RawStdEncoding.EncodeToString
RECURSIVE EncodeToString(_)
EncodeToString(b) ==
    IF Len(b) = 0 THEN <<>>
    ELSE IF Len(b) = 1 THEN <<b[1] \div 4, (b[1] % 4) * 16>>
    ELSE IF Len(b) = 2
         THEN <<b[1] \div 4, (b[1] % 4) * 16 + b[2] \div 16, (b[2] % 16) * 4>>
    ELSE <<b[1] \div 4, (b[1] % 4) * 16 + b[2] \div 16,
           (b[2] % 16) * 4 + b[3] \div 64, b[3] % 64>>
         \o EncodeToString(SubSeq(b, 4, Len(b)))

\* the bytes of well-formed unpadded base64 text
RECURSIVE DecodeQuanta(_)
DecodeQuanta(s) ==
    IF Len(s) < 2 THEN <<>>
    ELSE IF Len(s) = 2 THEN <<s[1] * 4 + s[2] \div 16>>
    ELSE IF Len(s) = 3
         THEN <<s[1] * 4 + s[2] \div 16, (s[2] % 16) * 16 + s[3] \div 4>>
    ELSE <<s[1] * 4 + s[2] \div 16, (s[2] % 16) * 16 + s[3] \div 4,
           (s[3] % 4) * 64 + s[4]>>
         \o DecodeQuanta(SubSeq(s, 5, Len(s)))

\* base64.RawStdEncoding.DecodeString: a character outside the alphabet (the
\* padding character too) and a single trailing character are errors
DecodeString(s) ==
    IF (\E i \in 1..Len(s) : s[i] \notin 0..63) \/ Len(s) % 4 = 1
    THEN [err |-> NewErr("illegal base64 data"), bytes |-> <<>>]
    ELSE [err |-> NoErr, bytes |-> DecodeQuanta(s)]

\* var connectionKey ConnectionKey
ZeroKey == [i \in 1..SeedSize |-> 0]

\* ParseConnectionKey
ParseConnectionKey(str) ==
    IF str = <<>>
    THEN [err |-> NewErr("connection key is empty"), key |-> ZeroKey]
    ELSE LET dec == DecodeString(str) IN
         IF dec.err # NoErr
         THEN [err |-> Wrap("base64 decode", dec.err), key |-> ZeroKey]
         ELSE IF checkKeyBytesErr(dec.bytes) # NoErr
         THEN [err |-> checkKeyBytesErr(dec.bytes), key |-> ZeroKey]
         ELSE IF Len(dec.bytes) < SeedSize   \* n := copy(connectionKey[:], keyBytes)
         THEN [err |-> NewErr("only some bytes were copied"),
               key |-> dec.bytes \o SubSeq(ZeroKey, Len(dec.bytes) + 1, SeedSize)]
         ELSE [err |-> NoErr, key |-> SubSeq(dec.bytes, 1, SeedSize)]

\* ConnectionKey.String
String(key) == EncodeToString(key)

\* ed25519.NewKeyFromSeed(key[:]).Public(): 32 bytes which the seed
\* determines and which differ for different seeds
PublicKeyBytes(key) == [i \in 1..SeedSize |-> (key[SeedSize + 1 - i] + i) % 256]

\* ConnectionKey.PublicKey on the bytes of the key
PublicKeyString(key) == EncodeToString(PublicKeyBytes(key))

\* big.Int.Bytes: the big-endian bytes of the absolute value, none for 0
RECURSIVE BigIntBytes(_)
BigIntBytes(n) == IF n = 0 THEN <<>> ELSE BigIntBytes(n \div 256) \o <<n % 256>>

\* (mutant) the CA is valid from the time of its creation
CACertificate_FromNow(key, now) ==
    IF checkKeyBytesErr(key) # NoErr
    THEN [err |-> checkKeyBytesErr(key)]
    ELSE [err |-> NoErr,
          SerialNumber |-> CASerial,
          CommonName |-> PublicKeyString(key),
          NotBefore |-> now,
          NotAfter |-> 9999,
          IsCA |-> TRUE,
          pub |-> PublicKeyBytes(key),
          signedBy |-> key]

\* generateCA on the bytes of the key, called at time now: the certificate
\* (time.Unix(0, 0) is time 0, NotAfter is the year)
CACertificate(key, now) ==
    IF checkKeyBytesErr(key) # NoErr
    THEN [err |-> checkKeyBytesErr(key)]
    ELSE [err |-> NoErr,
          SerialNumber |-> CASerial,
          CommonName |-> PublicKeyString(key),
          NotBefore |-> 0,
          NotAfter |-> 9999,
          IsCA |-> TRUE,
          pub |-> PublicKeyBytes(key),
          signedBy |-> key]

NoCA == [err |-> NewErr("not generated")]
NoKey == [err |-> NewErr("not parsed"), key |-> ZeroKey]

VARIABLES
    keyPc,      \* "idle" | "key" | "string" | "parsed" | "ca1" | "ca2" | "done"
    keyA,       \* a connection key
    keyB,       \* another connection key, or the same
    keyNow,     \* the clock
    keyStr,     \* keyA.String()
    keyParsed,  \* ParseConnectionKey(keyStr)
    caA1,       \* the CA of keyA
    caA2,       \* the CA of keyA, derived again
    caB         \* the CA of keyB

keyVars == <<keyPc, keyA, keyB, keyNow, keyStr, keyParsed, caA1, caA2, caB>>

KeyState ==
    /\ keyNow = 1
    /\ keyStr = <<>>
    /\ keyParsed = NoKey
    /\ caA1 = NoCA
    /\ caA2 = NoCA
    /\ caB = NoCA

\* the experiment is not run
KeyInit ==
    /\ keyPc = "idle"
    /\ keyA = ZeroKey
    /\ keyB = ZeroKey
    /\ KeyState

\* two keys are given
KeyRunInit ==
    /\ keyPc = "key"
    /\ keyA \in KeySeeds
    /\ keyB \in KeySeeds
    /\ KeyState

----------------------------------------------------------------------------
(* pbtls on the bytes of the key: the TLS configurations; clientTLSConfig of *)
(* the relay command and serverTLSConfig of the listen command               *)

\* a name that is no public-key ID: "test" in the alphabet's indices
TestName == <<45, 30, 44, 45>>

\* the empty string
EmptyText == <<>>

\* texts ParseConnectionKey can be given besides key.String(): none, with a
\* padding character, with a single trailing character, of 31 and of 33
\* bytes, and the text of a key with the unused bits of its last character set
BadTexts(key) ==
    { EmptyText,
      String(key) \o <<PadChar>>,
      String(key) \o <<0, 0>>,
      EncodeToString(SubSeq(key, 1, SeedSize - 1)),
      EncodeToString(key \o <<165>>),
      SubSeq(String(key), 1, 42) \o <<String(key)[43] + 1>> }

\* a *tls.Config and an error: cfg is <<>> for nil, <<c>> for &c
Result(err, cfg) == [err |-> err, cfg |-> cfg]

\* generateCertificate at time now
LeafCertificate(ca, hostname, usage, now) ==
    [DNSNames |-> {hostname},
     ExtKeyUsage |-> {usage},
     issuer |-> ca.CommonName,
     signedBy |-> ca.signedBy,
     NotBefore |-> now]

\* ServerTLSConfigForHostname at time now
kbtlsServerTLSConfigForHostname(key, hostname, now) ==
    LET ca == CACertificate(key, now) IN
    IF ca.err # NoErr
    THEN Result(Wrap("generate CA", ca.err), <<>>)
    ELSE Result(NoErr,
                <<[ClientAuth |-> "RequireAndVerifyClientCert",
                   ClientCAs |-> {ca},
                   Certificates |-> <<LeafCertificate(ca, hostname, "ServerAuth", now)>>,
                   MinVersion |-> 13]>>)

\* ServerTLSConfig
kbtlsServerTLSConfig(key, now) ==
    kbtlsServerTLSConfigForHostname(key, PublicKeyString(key), now)

\* ClientTLSConfigForClientName at time now: the certificate is generated
\* for key.PublicKey()
kbtlsClientTLSConfigForClientName(key, clientName, now) ==
    LET ca == CACertificate(key, now) IN
    IF ca.err # NoErr
    THEN Result(Wrap("generate CA", ca.err), <<>>)
    ELSE Result(NoErr,
                <<[RootCAs |-> {ca},
                   Certificates |-> <<LeafCertificate(ca, PublicKeyString(key), "ClientAuth", now)>>,
                   ServerName |-> PublicKeyString(key),
                   InsecureSkipVerify |-> FALSE,
                   MinVersion |-> 13]>>)

\* ClientTLSConfig
kbtlsClientTLSConfig(key, now) ==
    kbtlsClientTLSConfigForClientName(key, PublicKeyString(key), now)

\* &tls.Config{InsecureSkipVerify: true}
InsecureConfig ==
    [RootCAs |-> {}, Certificates |-> <<>>, ServerName |-> EmptyText,
     InsecureSkipVerify |-> TRUE, MinVersion |-> 0]

\* the relay command's configuration from a parsed key
clientTLSConfigFromKey(connectionKey, now) ==
    LET parsed == ParseConnectionKey(connectionKey) IN
    IF parsed.err # NoErr
    THEN Result(Wrap("parse connection key", parsed.err), <<>>)
    ELSE LET c == kbtlsClientTLSConfig(parsed.key, now) IN
         IF c.err # NoErr THEN Result(Wrap("configure TLS", c.err), <<>>) ELSE c

\* (mutant) --insecure with a key sends no client certificate
clientTLSConfig_InsecureAnonymous(connectionKey, insec, now) ==
    IF ~insec /\ connectionKey = EmptyText
    THEN Result(NewErr("connection key is required (--key)"), <<>>)
    ELSE IF insec
    THEN Result(NoErr, <<InsecureConfig>>)
    ELSE clientTLSConfigFromKey(connectionKey, now)

\* clientTLSConfig (relay command): the cases of the switch in their order,
\* the default last
clientTLSConfig(connectionKey, insec, now) ==
    IF ~insec /\ connectionKey = EmptyText
    THEN Result(NewErr("connection key is required (--key)"), <<>>)
    ELSE IF insec /\ connectionKey = EmptyText
    THEN Result(NoErr, <<InsecureConfig>>)
    ELSE IF insec /\ connectionKey # EmptyText
    THEN LET c == clientTLSConfigFromKey(connectionKey, now) IN
         IF c.err # NoErr THEN c
         ELSE Result(NoErr, <<[c.cfg[1] EXCEPT !.InsecureSkipVerify = TRUE,
                                               !.ServerName = EmptyText]>>)
    ELSE clientTLSConfigFromKey(connectionKey, now)

\* what GenerateConnectionKey can return: a key that is not all zero, or
\* an error of the random source, or the error of the all-zero key
GenerateOutcomes ==
    {[err |-> NoErr, key |-> k] : k \in {x \in KeySeeds : ~isZeroBytes(x)}}
       \cup {[err |-> Wrap("read random bytes", NewErr("entropy source failed")),
              key |-> ZeroKey],
             [err |-> NewErr("invalid all-zero connection key"), key |-> ZeroKey]}

\* (mutant) --insecure is ignored
serverTLSConfig_AlwaysVerify(connectionKey, insec, generated, now) ==
    LET k == IF connectionKey # EmptyText THEN ParseConnectionKey(connectionKey)
             ELSE generated IN
    IF k.err # NoErr
    THEN [err |-> Wrap(IF connectionKey # EmptyText THEN "parse connection key"
                       ELSE "generate connection key", k.err),
          cfg |-> <<>>, key |-> k.key]
    ELSE LET c == kbtlsServerTLSConfig(k.key, now) IN
         IF c.err # NoErr
         THEN [err |-> Wrap("configure TLS", c.err), cfg |-> <<>>, key |-> k.key]
         ELSE [err |-> NoErr, cfg |-> c.cfg, key |-> k.key]

\* serverTLSConfig (listen command); generated is what GenerateConnectionKey
\* returns when it is called
serverTLSConfig(connectionKey, insec, generated, now) ==
    LET k == IF connectionKey # EmptyText THEN ParseConnectionKey(connectionKey)
             ELSE generated IN
    IF k.err # NoErr
    THEN [err |-> Wrap(IF connectionKey # EmptyText THEN "parse connection key"
                       ELSE "generate connection key", k.err),
          cfg |-> <<>>, key |-> k.key]
    ELSE LET c == kbtlsServerTLSConfig(k.key, now) IN
         IF c.err # NoErr
         THEN [err |-> Wrap("configure TLS", c.err), cfg |-> <<>>, key |-> k.key]
         ELSE IF insec
         THEN [err |-> NoErr,
               cfg |-> <<[c.cfg[1] EXCEPT !.ClientAuth = "NoClientCert",
                                          !.ClientCAs = {}]>>,
               key |-> k.key]
         ELSE [err |-> NoErr, cfg |-> c.cfg, key |-> k.key]

NoResult == Result(NewErr("not called"), <<>>)

VARIABLES
    cfgPc,        \* "idle" | "parse" | "ca" | "server" | "client" | "named" | "relay" | "listen" | "done"
    cfgKey,       \* a ConnectionKey value
    cfgText,      \* a key text: --key
    cfgInsecure,  \* --insecure
    cfgName,      \* a client name
    cfgNow,       \* the clock
    cfgParsed,    \* ParseConnectionKey(cfgText)
    cfgCA,        \* generateCA(cfgKey)
    cfgServer,    \* ServerTLSConfig(cfgKey)
    cfgClient,    \* ClientTLSConfig(cfgKey)
    cfgNamed,     \* ClientTLSConfigForClientName(cfgKey, cfgName)
    cfgRelay,     \* clientTLSConfig(cfgText, cfgInsecure)
    cfgGenerated, \* what GenerateConnectionKey returned to serverTLSConfig
    cfgListen     \* serverTLSConfig(cfgText, cfgInsecure)

cfgVars == <<cfgPc, cfgKey, cfgText, cfgInsecure, cfgName, cfgNow, cfgParsed, cfgCA,
             cfgServer, cfgClient, cfgNamed, cfgRelay, cfgGenerated, cfgListen>>

CfgState ==
    /\ cfgNow = 1
    /\ cfgParsed = NoKey
    /\ cfgCA = NoCA
    /\ cfgServer = NoResult
    /\ cfgClient = NoResult
    /\ cfgNamed = NoResult
    /\ cfgRelay = NoResult
    /\ cfgGenerated = NoKey
    /\ cfgListen = [err |-> NewErr("not called"), cfg |-> <<>>, key |-> ZeroKey]

\* the experiment is not run
CfgInit ==
    /\ cfgPc = "idle"
    /\ cfgKey = ZeroKey
    /\ cfgText = EmptyText
    /\ cfgInsecure = FALSE
    /\ cfgName = EmptyText
    /\ CfgState

\* a key, a key text (the key's or another one), the flag and a name
CfgRunInit ==
    /\ cfgPc = "parse"
    /\ cfgKey \in KeySeeds
    /\ cfgText \in {String(cfgKey)} \cup BadTexts(cfgKey)
    /\ cfgInsecure \in BOOLEAN
    /\ cfgName \in {TestName, PublicKeyString(cfgKey), EmptyText}
    /\ CfgState

----------------------------------------------------------------------------
(* GenerateConnectionKey *)

maxAttempts == 10

ErrExhausted == NewErr("could not generate a valid non-zero connection key in 10 attempts")

VARIABLES
    genPc,     \* "idle" | "loop" | "returned"
    genI,      \* the loop variable i
    genKey,    \* connectionKey
    genDraws,  \* the calls of rand.Read so far
    genErr     \* the error returned

genVars == <<genPc, genI, genKey, genDraws, genErr>>

GenState ==
    /\ genI = 0
    /\ genKey = ZeroKey
    /\ genDraws = 0
    /\ genErr = NoErr

\* the experiment is not run
GenInit == genPc = "idle" /\ GenState

\* var connectionKey ConnectionKey; i := 0
GenRunInit == genPc = "loop" /\ GenState

----------------------------------------------------------------------------
(* runLocalSocksProxy and runRemoteProxyRelay from their first statement:    *)
(* the TLS configuration, the sockets, the loop and the value returned       *)

\* calls of listener.Accept() in one run of the listen command
MaxAccepts == 2

\* calls of connectBackAndRelay in one run of the relay command
MaxConnectBacks == 2

\* the keys whose texts the commands are given
SetupKeys == {ZeroKey, KeyOf(0, 0, 165)}

\* the values of --key
SetupTexts == UNION {{String(k)} \cup BadTexts(k) : k \in SetupKeys}

VARIABLES
    suText,       \* connectionKey of both commands
    suInsecure,   \* insecure of both commands
    suAbort,      \* runLocalSocksProxy's abortOnDisconnect
    suReconnect,  \* runRemoteProxyRelay's reconnectAfter
    lcPc,         \* "idle" | "config" | "listen" | "accept" | "run" | "check" | "deferred" | "returned"
    lcErr,        \* runLocalSocksProxy's named result err
    lcRet,        \* the error the caller of runLocalSocksProxy receives
    lcListener,   \* the public listener: "none" | "open" | "closed"
    lcCtxDone,    \* ctx is cancelled
    lcAccepts,    \* calls of listener.Accept() so far
    lcUI,         \* the messages given to updateUI so far
    lcOccurred,   \* the errors of Accept and of RunProxyWithEventCallback's handleRelayConnection so far
    rlPc,         \* "idle" | "config" | "connect" | "returned"
    rlRet,        \* the error runRemoteProxyRelay returns
    rlDials       \* calls of connectBackAndRelay so far

suVars == <<suText, suInsecure, suAbort, suReconnect, lcPc, lcErr, lcRet, lcListener,
            lcCtxDone, lcAccepts, lcUI, lcOccurred, rlPc, rlRet, rlDials>>

SetupState ==
    /\ lcErr = NoErr
    /\ lcRet = NoErr
    /\ lcListener = "none"
    /\ lcCtxDone = FALSE
    /\ lcAccepts = 0
    /\ lcUI = <<>>
    /\ lcOccurred = {}
    /\ rlRet = NoErr
    /\ rlDials = 0

\* the commands are not run
SetupInit ==
    /\ suText = EmptyText
    /\ suInsecure = FALSE
    /\ suAbort = FALSE
    /\ suReconnect = 0
    /\ lcPc = "idle"
    /\ rlPc = "idle"
    /\ SetupState

\* both commands are started with the same key text and --insecure
SetupRunInit ==
    /\ suText \in SetupTexts
    /\ suInsecure \in BOOLEAN
    /\ suAbort \in BOOLEAN
    /\ suReconnect \in {0, 1}
    /\ lcPc = "config"
    /\ rlPc = "config"
    /\ SetupState

----------------------------------------------------------------------------
(* withDefaultPort: addresses are sequences of characters *)

\* the longest address of the experiment
MaxAddrLen == 5

\* the characters of the addresses: a letter, a digit, and the three
\* characters net.SplitHostPort looks at
AddrChars == {"a", "1", ":", "[", "]"}

\* DefaultProxyPort and DefaultListenPort
DefaultProxyPort == 1080
DefaultListenPort == 4080

\* the position (from 0) of the first c in s, or -1
IndexByte(s, c) ==
    IF \E i \in 1..Len(s) : s[i] = c
    THEN (CHOOSE i \in 1..Len(s) : s[i] = c /\ \A j \in 1..(i - 1) : s[j] # c) - 1
    ELSE -1

\* the position (from 0) of the last c in s, or -1
LastIndexByte(s, c) ==
    IF \E i \in 1..Len(s) : s[i] = c
    THEN (CHOOSE i \in 1..Len(s) : s[i] = c /\ \A j \in (i + 1)..Len(s) : s[j] # c) - 1
    ELSE -1

\* s[from:], positions from 0
SliceFrom(s, from) == SubSeq(s, from + 1, Len(s))

\* net.SplitHostPort: the error, "" for none
SplitHostPortErr(hostport) ==
    LET i == LastIndexByte(hostport, ":")
        end == IndexByte(hostport, "]")
        bracketed == hostport[1] = "["
        j == IF bracketed THEN 1 ELSE 0
        k == IF bracketed THEN end + 1 ELSE 0
    IN  IF i < 0 THEN "missing port in address"
        ELSE IF bracketed /\ end < 0 THEN "missing ']' in address"
        ELSE IF bracketed /\ end + 1 = Len(hostport) THEN "missing port in address"
        ELSE IF bracketed /\ end + 1 # i /\ hostport[end + 2] = ":"
             THEN "too many colons in address"
        ELSE IF bracketed /\ end + 1 # i THEN "missing port in address"
        ELSE IF ~bracketed /\ IndexByte(SubSeq(hostport, 1, i), ":") >= 0
             THEN "too many colons in address"
        ELSE IF IndexByte(SliceFrom(hostport, j), "[") >= 0
             THEN "unexpected '[' in address"
        ELSE IF IndexByte(SliceFrom(hostport, k), "]") >= 0
             THEN "unexpected ']' in address"
        ELSE ""

\* strconv.Itoa of a natural number
RECURSIVE Itoa(_)
Itoa(n) ==
    LET digit == <<"0", "1", "2", "3", "4", "5", "6", "7", "8", "9">>[(n % 10) + 1] IN
    IF n < 10 THEN <<digit>> ELSE Itoa(n \div 10) \o <<digit>>

\* withDefaultPort
withDefaultPort(addr, defaultPort) ==
    IF SplitHostPortErr(addr) = "" THEN addr
    ELSE addr \o <<":">> \o Itoa(defaultPort)

VARIABLES
    adPc,     \* "idle" | "once" | "twice" | "done"
    adAddr,   \* the address given
    adPort,   \* the default port
    adOnce,   \* withDefaultPort(adAddr, adPort)
    adTwice   \* withDefaultPort(adOnce, adPort)

adVars == <<adPc, adAddr, adPort, adOnce, adTwice>>

\* the experiment is not run
AddrInit ==
    /\ adPc = "idle"
    /\ adAddr = <<>>
    /\ adPort = DefaultListenPort
    /\ adOnce = <<>>
    /\ adTwice = <<>>

\* an address of at most MaxAddrLen characters and one of the default ports
AddrRunInit ==
    /\ adPc = "once"
    /\ adAddr \in UNION {[1..n -> AddrChars] : n \in 0..MaxAddrLen}
    /\ adPort \in {DefaultProxyPort, DefaultListenPort}
    /\ adOnce = <<>>
    /\ adTwice = <<>>

----------------------------------------------------------------------------
(* The terminal UI's model *)

\* the messages one run of the UI handles
MaxMessages == 3

\* m.connection is nil
NoConnection == [IP |-> <<>>, Start |-> 0 - 1, End |-> 0 - 1, Error |-> <<>>]

\* the Data of the events sent to the UI
UIData == {<<>>, <<"relay address">>, <<"accept", "too many open files">>}

UIEventTypes ==
    { TypeError, TypeRelayConnected, TypeRelayDisconnected, TypeSOCKS5Active,
      TypeSOCKS5Inactive, TypeSOCKS5ConnectionOpened, TypeSOCKS5ConnectionClosed }

\* tea.KeyMsg and tickMsg
KeyMessages == {[Type |-> "tea.KeyMsg", Data |-> <<k>>, conn |-> 0] : k \in {"ctrl+c", "q"}}
TickMessage == [Type |-> "tickMsg", Data |-> <<>>, conn |-> 0]

VARIABLES
    uiPc,     \* "idle" | "run" | "quit"
    uiModel,  \* the fields of model that Update writes
    uiMsg,    \* the message Update handled last
    uiNow     \* time.Now(), counted in messages

uiVars == <<uiPc, uiModel, uiMsg, uiNow>>

\* the model startUI constructs
NewModel ==
    [ errors |-> <<>>, previousConnections |-> <<>>, connection |-> NoConnection,
      socksActive |-> FALSE, quitting |-> FALSE, dotCount |-> 0 ]

UIState ==
    /\ uiModel = NewModel
    /\ uiMsg = TickMessage
    /\ uiNow = 0

\* the experiment is not run
UIInit == uiPc = "idle" /\ UIState

UIRunInit == uiPc = "run" /\ UIState

----------------------------------------------------------------------------
(* The tasks of one call of RunProxyWithEventCallback and their invocations
   of the callback *)

\* the task running the call, the handler tasks (1..MaxLocalConns), the
\* control-channel reader and the session-close watcher
CallTask == 0
ReaderTask == MaxLocalConns + 1
WatcherTask == MaxLocalConns + 2
Tasks == {CallTask, ReaderTask, WatcherTask} \cup Handlers

\* the positions at which a task calls callback(...)
AtCallback ==
    { "relay connected", "active", "opened", "inactive", "relay disconnected",
      "message", "read error", "close error", "error", "closed" }

VARIABLES
    ivTask,  \* the position of every task; "none": not started
    ivIn,    \* the tasks that have called the callback and not returned from it
    ivConn   \* the local connection the accept loop accepted last

ivVars == <<ivTask, ivIn, ivConn>>

InvocationsState ==
    /\ ivIn = {}
    /\ ivConn = 0

\* the experiment is not run
InvocationsInit ==
    /\ ivTask = [t \in Tasks |-> "none"]
    /\ InvocationsState

\* RunProxyWithEventCallback is called
InvocationsRunInit ==
    /\ ivTask = [t \in Tasks |-> IF t = CallTask THEN "relay connected" ELSE "none"]
    /\ InvocationsState

VARIABLES
    \* runLocalSocksProxy
    ctxDone,            \* the listener's context is cancelled
    abortOnDisconnect,  \* --abort-on-disconnect
    listener,           \* the public TLS listener: "open" | "closed"
    lpc,                \* "accept" | "run" | "check" | "returned"
    dials,              \* relay dials so far
    dial,               \* "none" | "pending": a relay connection to accept
    dialLimit,          \* relay dials in this run
    clients,            \* local clients that connect per relay connection
    ctxWatchers,        \* tasks waiting in <-ctx.Done() to close a relay connection
    \* the relay connection being served
    relayConn,          \* "none" | "open" | "closed"
    tls,                \* outcome of the TLS handshake on relayConn
    \* RunProxyWithEventCallback
    ppc,                \* "idle" | "open" | "listen" | "accept" | "wait" | "disc" | "ret"
    openErr,            \* the error client.Open() returned for the control stream
    perr,               \* the error handleRelayConnection returns
    psess,              \* the proxy's yamux session: "none" | "open" | "closed"
    fwd,                \* the forwarding listener: "none" | "open" | "closed"
    watcher,            \* the session-close watcher: "none" | "armed" |
                        \* "flagged" | "done" | "failed"
    closedBecausePayloadDisconnected,
    reader,             \* handleErrorNotificationConnection: "none" | "run" | "done"
    hs,                 \* per local connection: the handler's state
    opened,             \* the streams the proxy opened, in order
    events,             \* the events the current call's callback received
    lateEvents,         \* events delivered after the call's relay-disconnected
    staleWatchers,      \* armed watchers of relay connections already replaced
    \* RunRelayWithEventCallback
    rpc,                \* "idle" | "accept" | "serve" | "returned"
    rsess,              \* the relay's yamux session
    acceptQ,            \* streams opened by the proxy, not yet accepted by the relay
    rctl,               \* <<s>>: the relay uses stream s as control stream
    rfwd                \* the streams the SOCKS5 server accepted

lvars == <<ctxDone, abortOnDisconnect, listener, lpc, dials, dial, dialLimit, clients, ctxWatchers>>
pvars == <<relayConn, tls, ppc, openErr, perr, psess, fwd, watcher,
           closedBecausePayloadDisconnected, reader, hs, opened, events,
           lateEvents, staleWatchers>>
rvars == <<rpc, rsess, acceptQ, rctl, rfwd>>
\* the experiments on single functions and tasks, which run on their own
unitVars == <<tlsVars, ctlVars, cmdVars, keyVars, cfgVars, genVars, suVars, adVars, uiVars, cbVars, ivVars>>

UnitInit == TLSInit /\ CtlInit /\ CmdInit /\ KeyInit /\ CfgInit /\ GenInit /\ SetupInit /\ AddrInit /\ UIInit /\ CallbackInit /\ InvocationsInit

vars == <<lvars, pvars, rvars, unitVars>>

\* pc: "none" | "open" | "copy" | "done"; conn, stream: "none" | "open" |
\* "closed"; l2s, s2l (the copy tasks): "none" | "run" | "done"; err: the
\* errgroup's error
NoHandler ==
    [pc |-> "none", conn |-> "none", stream |-> "none", l2s |-> "none",
     s2l |-> "none", err |-> NoErr]

\* runLocalSocksProxy has bound the public listener and waits in Accept
NetInit ==
    /\ ctxDone = FALSE
    /\ abortOnDisconnect \in BOOLEAN
    /\ listener = "open"
    /\ lpc = "accept"
    /\ dials = 0
    /\ dial = "none"
    /\ ctxWatchers = 0
    /\ relayConn = "none"
    /\ tls = "none"
    /\ ppc = "idle"
    /\ openErr = NoErr
    /\ perr = NoErr
    /\ psess = "none"
    /\ fwd = "none"
    /\ watcher = "none"
    /\ closedBecausePayloadDisconnected = FALSE
    /\ reader = "none"
    /\ hs = [h \in Handlers |-> NoHandler]
    /\ opened = <<>>
    /\ events = <<>>
    /\ lateEvents = 0
    /\ staleWatchers = 0
    /\ rpc = "idle"
    /\ rsess = "none"
    /\ acceptQ = <<>>
    /\ rctl = <<>>
    /\ rfwd = {}

\* the listener serves MaxRelayConns relay connections in a row
Init ==
    /\ NetInit
    /\ UnitInit
    /\ dialLimit = MaxRelayConns
    /\ clients = LoopLocalConns

\* the listener serves one relay connection, with MaxLocalConns local clients
SessionInit ==
    /\ NetInit
    /\ UnitInit
    /\ dialLimit = 1
    /\ clients = MaxLocalConns

\* the stream opened by handleRelayConnection; the stream opened for local
\* connection h is h
ControlStream == 0

\* the callback of a call that has not emitted relay-disconnected yet
CallActive == ppc \notin {"idle", "ret"}

----------------------------------------------------------------------------
(* listen.go: runLocalSocksProxy and handleRelayConnection *)

\* the relay process dials the listener (connectBackAndRelay); the handshake
\* it will run is fixed by its key and --insecure
RelayDial(key, insecure) ==
    /\ dial = "none"
    /\ dials < dialLimit
    /\ lpc # "returned"
    /\ listener = "open"
    /\ rpc \in {"idle", "returned"}
    /\ dial' = "pending"
    /\ dials' = dials + 1
    /\ tls' = Handshake(ServerTLSConfig(ListenerKey), relayTLSConfig(key, insecure))
    /\ UNCHANGED <<ctxDone, abortOnDisconnect, listener, lpc, dialLimit, clients, ctxWatchers>>
    /\ UNCHANGED <<relayConn, ppc, openErr, perr, psess, fwd, watcher,
                   closedBecausePayloadDisconnected, reader, hs, opened,
                   events, lateEvents, staleWatchers>>
    /\ UNCHANGED <<rvars, unitVars>>

\* the tasks a relay connection starts that wait for the context: one in
\* handleRelayConnection of the listener, one in handleRelayConnection of
\* package proxyrelay
contextWatchersStarted == 2

\* listener.Accept() returns a connection; RunProxyWithEventCallback emits
\* relay-connected and handleRelayConnection starts the yamux client. The
\* relay's dial returns once its side of the handshake is over.
ListenerAccept ==
    /\ lpc = "accept"
    /\ listener = "open"
    /\ dial = "pending"
    /\ dial' = "none"
    /\ lpc' = "run"
    /\ relayConn' = IF tls = "ok" THEN "open" ELSE "closed"
    /\ ppc' = "open"
    /\ openErr' = NoErr
    /\ perr' = NoErr
    /\ psess' = "open"
    /\ fwd' = "none"
    /\ watcher' = "none"
    /\ staleWatchers' = staleWatchers + (IF watcher \in {"armed", "flagged"} THEN 1 ELSE 0)
    /\ closedBecausePayloadDisconnected' = FALSE
    /\ reader' = "none"
    /\ hs' = [h \in Handlers |-> NoHandler]
    /\ opened' = <<>>
    /\ events' = Invoke(<<>>, <<Event(TypeRelayConnected, <<"relay address">>, 0)>>)
    /\ rpc' = IF tls = "client_verification_error" THEN "returned" ELSE "accept"
    /\ rsess' = IF tls = "client_verification_error" THEN "none" ELSE "open"
    /\ acceptQ' = <<>>
    /\ rctl' = <<>>
    /\ rfwd' = {}
    /\ ctxWatchers' = IF ctxDone THEN ctxWatchers ELSE ctxWatchers + contextWatchersStarted
    /\ UNCHANGED <<ctxDone, abortOnDisconnect, listener, dials, tls, lateEvents, dialLimit, clients>>
    /\ UNCHANGED unitVars

\* listener.Accept() fails because the listener is closed: the error is
\* net.ErrClosed and no event is emitted
ListenerAcceptClosed ==
    /\ lpc = "accept"
    /\ listener = "closed"
    /\ lpc' = "check"
    /\ UNCHANGED <<ctxDone, abortOnDisconnect, listener, dials, dial, dialLimit, clients, ctxWatchers>>
    /\ UNCHANGED <<pvars, rvars, unitVars>>

\* handleRelayConnection returns: defer relayConn.Close()
HandleRelayConnectionReturn ==
    /\ lpc = "run"
    /\ ppc = "ret"
    /\ lpc' = "check"
    /\ relayConn' = "closed"
    /\ UNCHANGED <<ctxDone, abortOnDisconnect, listener, dials, dial, dialLimit, clients, ctxWatchers>>
    /\ UNCHANGED <<tls, ppc, openErr, perr, psess, fwd, watcher,
                   closedBecausePayloadDisconnected, reader, hs, opened,
                   events, lateEvents, staleWatchers>>
    /\ UNCHANGED <<rvars, unitVars>>

\* (mutant) the loop serves one relay connection only
loopReturns_Always(abort, cancelled) == TRUE

\* (mutant) the loop ignores the cancellation
loopReturns_IgnoresCancel(abort, cancelled) == abort

\* the loop's exit test
loopReturns(abort, cancelled) == abort \/ cancelled

\* if abortOnDisconnect || ctx.Err() != nil { return nil }, with the deferred
\* listener.Close() and cancel()
LoopCheck ==
    /\ lpc = "check"
    /\ IF loopReturns(abortOnDisconnect, ctxDone)
       THEN /\ lpc' = "returned"
            /\ listener' = "closed"
            /\ ctxDone' = TRUE
       ELSE /\ lpc' = "accept"
            /\ UNCHANGED <<listener, ctxDone>>
    /\ UNCHANGED <<abortOnDisconnect, dials, dial, dialLimit, clients, ctxWatchers>>
    /\ UNCHANGED <<pvars, rvars, unitVars>>

\* the UI shuts down (ctrl+c): cancel(); no task waits in <-ctx.Done() any
\* more
CtxCancel ==
    /\ ~ctxDone
    /\ lpc # "returned"
    /\ ctxDone' = TRUE
    /\ ctxWatchers' = 0
    /\ UNCHANGED <<abortOnDisconnect, listener, lpc, dials, dial, dialLimit, clients>>
    /\ UNCHANGED <<pvars, rvars, unitVars>>

\* go func() { <-ctx.Done(); listener.Close() }
CtxClosesListener ==
    /\ ctxDone
    /\ listener = "open"
    /\ listener' = "closed"
    /\ UNCHANGED <<ctxDone, abortOnDisconnect, lpc, dials, dial, dialLimit, clients, ctxWatchers>>
    /\ UNCHANGED <<pvars, rvars, unitVars>>

\* go func() { <-ctx.Done(); relayConn.Close() }
CtxClosesRelayConn ==
    /\ ctxDone
    /\ lpc = "run"
    /\ relayConn = "open"
    /\ relayConn' = "closed"
    /\ UNCHANGED lvars
    /\ UNCHANGED <<tls, ppc, openErr, perr, psess, fwd, watcher,
                   closedBecausePayloadDisconnected, reader, hs, opened,
                   events, lateEvents, staleWatchers>>
    /\ UNCHANGED <<rvars, unitVars>>

----------------------------------------------------------------------------
(* proxyrelay: RunProxyWithEventCallback and what it starts *)

\* (mutant) the callback is invoked without the nil check
Emit_Unguarded(evs) == events' = events \o evs

\* the callback is invoked by the task running the call
Emit(evs) == events' = Invoke(events, evs)

\* the callback is invoked by a background task, which may outlive the call
EmitBackground(ev) ==
    IF CallActive
    THEN events' = Invoke(events, <<ev>>) /\ UNCHANGED lateEvents
    ELSE lateEvents' = lateEvents + Len(Invoke(<<>>, <<ev>>)) /\ UNCHANGED events

\* what client.Open() can fail with: a failed handshake or a closed
\* connection shuts the session down, and Open returns either the session's
\* shutdown error or the error of its own write (net.ErrClosed when the
\* context watcher closed relayConn, a broken pipe when the relay did); with
\* everything open the write can still time out
OpenFailures ==
    IF tls = "server_verification_error"
    THEN {ErrSessionShutdown, ErrCertificateVerification}
    ELSE IF tls = "client_verification_error"
    THEN {ErrSessionShutdown, ErrRemoteAlert}
    ELSE IF relayConn # "open" \/ psess # "open"
    THEN {ErrSessionShutdown, IF ctxDone THEN ErrNetClosed ELSE ErrBrokenPipe}
    ELSE {ErrWriteTimeout}

OpenCanSucceed == tls = "ok" /\ relayConn = "open" /\ psess = "open"

\* (mutant) every failure of client.Open() is wrapped
openControlError_AlwaysWrap(err) == Wrap("open error notification connection", err)

\* handleRelayConnection: the error returned when client.Open() fails
openControlError(err) ==
    IF err = ErrSessionShutdown \/ err = ErrCertificateVerification
    THEN NewErr("invalid connection key")
    ELSE Wrap("open error notification connection", err)

\* errConn, err := client.Open(), and on success
\* go handleErrorNotificationConnection(errConn, callback)
OpenControlStream ==
    /\ ppc = "open"
    /\ OpenCanSucceed
    /\ opened' = Append(opened, ControlStream)
    /\ acceptQ' = Append(acceptQ, ControlStream)
    /\ reader' = "run"
    /\ ppc' = "listen"
    /\ UNCHANGED lvars
    /\ UNCHANGED <<relayConn, tls, openErr, perr, psess, fwd, watcher,
                   closedBecausePayloadDisconnected, hs, events, lateEvents,
                   staleWatchers>>
    /\ UNCHANGED <<rpc, rsess, rctl, rfwd>>
    /\ UNCHANGED unitVars

OpenControlStreamFails(err) ==
    /\ ppc = "open"
    /\ err \in OpenFailures
    /\ openErr' = err
    /\ perr' = openControlError(err)
    /\ ppc' = "disc"
    /\ UNCHANGED lvars
    /\ UNCHANGED <<relayConn, tls, psess, fwd, watcher,
                   closedBecausePayloadDisconnected, reader, hs, opened,
                   events, lateEvents, staleWatchers>>
    /\ UNCHANGED <<rvars, unitVars>>

\* startLocalProxyServer: net.Listen succeeds, forwarding-active is emitted
\* and the session-close watcher starts
ListenForward ==
    /\ ppc = "listen"
    /\ fwd' = "open"
    /\ Emit(<<Event(TypeSOCKS5Active, <<>>, 0)>>)
    /\ watcher' = "armed"
    /\ ppc' = "accept"
    /\ UNCHANGED lvars
    /\ UNCHANGED <<relayConn, tls, openErr, perr, psess,
                   closedBecausePayloadDisconnected, reader, hs, opened,
                   lateEvents, staleWatchers>>
    /\ UNCHANGED <<rvars, unitVars>>

\* (mutant) forwarding-active is emitted before net.Listen is tried
ListenForwardFails_AfterActive ==
    /\ ppc = "listen"
    /\ perr' = Wrap("proxy", Wrap("listen for relay connection", ErrAddrInUse))
    /\ Emit(<<Event(TypeSOCKS5Active, <<>>, 0)>>)
    /\ ppc' = "disc"
    /\ UNCHANGED lvars
    /\ UNCHANGED <<relayConn, tls, openErr, psess, fwd, watcher,
                   closedBecausePayloadDisconnected, reader, hs, opened,
                   lateEvents, staleWatchers>>
    /\ UNCHANGED <<rvars, unitVars>>

\* startLocalProxyServer: net.Listen fails
ListenForwardFails ==
    /\ ppc = "listen"
    /\ perr' = Wrap("proxy", Wrap("listen for relay connection", ErrAddrInUse))
    /\ ppc' = "disc"
    /\ UNCHANGED lvars
    /\ UNCHANGED <<relayConn, tls, openErr, psess, fwd, watcher,
                   closedBecausePayloadDisconnected, reader, hs, opened,
                   events, lateEvents, staleWatchers>>
    /\ UNCHANGED <<rvars, unitVars>>

\* proxyListener.Accept() returns a connection: connection-opened is emitted
\* and the handler task starts
AcceptLocal(h) ==
    /\ ppc = "accept"
    /\ fwd = "open"
    /\ h <= clients
    /\ hs[h].pc = "none"
    /\ \A g \in Handlers : g < h => hs[g].pc # "none"
    /\ Emit(<<Event(TypeSOCKS5ConnectionOpened, formatAddr(PeerAddr(h)), h)>>)
    /\ hs' = [hs EXCEPT ![h] = [NoHandler EXCEPT !.pc = "open", !.conn = "open"]]
    /\ UNCHANGED lvars
    /\ UNCHANGED <<relayConn, tls, ppc, openErr, perr, psess, fwd, watcher,
                   closedBecausePayloadDisconnected, reader, opened,
                   lateEvents, staleWatchers>>
    /\ UNCHANGED <<rvars, unitVars>>

\* (mutant) every failure of Accept is returned as an error
acceptLoopError_Always(sessionClosed, err) == Wrap("accept socks5 connection", err)

\* startLocalProxyServer: what the accept loop returns when Accept fails
acceptLoopError(sessionClosed, err) ==
    IF sessionClosed THEN NoErr ELSE Wrap("accept socks5 connection", err)

\* handleRelayConnection: startLocalProxyServer's error, wrapped
proxyError(err) == IF err = NoErr THEN NoErr ELSE Wrap("proxy", err)

\* proxyListener.Accept() fails: because the listener is closed, or for a
\* reason of its own while the listener is open
AcceptLocalFails(err) ==
    /\ ppc = "accept"
    /\ \/ fwd = "closed" /\ err = ErrNetClosed
       \/ fwd = "open" /\ err = ErrAccept
    /\ perr' = proxyError(acceptLoopError(closedBecausePayloadDisconnected, err))
    /\ ppc' = "wait"
    /\ UNCHANGED lvars
    /\ UNCHANGED <<relayConn, tls, openErr, psess, fwd, watcher,
                   closedBecausePayloadDisconnected, reader, hs, opened,
                   events, lateEvents, staleWatchers>>
    /\ UNCHANGED <<rvars, unitVars>>

\* (mutant) the accept loop returns without waiting for its handlers
handlersDone_NoWait(st) == TRUE

\* the handlers wg.Wait() waits for
handlersDone(st) == \A h \in Handlers : st[h].pc \in {"none", "done"}

\* (mutant) startLocalProxyServer returns without closing proxyListener
AcceptLoopReturns_LeavesListener ==
    /\ ppc = "wait"
    /\ handlersDone(hs)
    /\ Emit(<<Event(TypeSOCKS5Inactive, <<>>, 0)>>)
    /\ ppc' = "disc"
    /\ UNCHANGED lvars
    /\ UNCHANGED <<relayConn, tls, openErr, perr, psess, fwd, watcher,
                   closedBecausePayloadDisconnected, reader, hs, opened,
                   lateEvents, staleWatchers>>
    /\ UNCHANGED <<rvars, unitVars>>

\* startLocalProxyServer returns: the deferred wg.Wait(), then the deferred
\* forwarding-inactive, then the deferred proxyListener.Close()
AcceptLoopReturns ==
    /\ ppc = "wait"
    /\ handlersDone(hs)
    /\ Emit(<<Event(TypeSOCKS5Inactive, <<>>, 0)>>)
    /\ fwd' = "closed"
    /\ ppc' = "disc"
    /\ UNCHANGED lvars
    /\ UNCHANGED <<relayConn, tls, openErr, perr, psess, watcher,
                   closedBecausePayloadDisconnected, reader, hs, opened,
                   lateEvents, staleWatchers>>
    /\ UNCHANGED <<rvars, unitVars>>

\* (mutant) a closed-connection error is reported like any other
disconnectError_KeepsClosed(err) == err

\* RunProxyWithEventCallback: if errors.Is(err, net.ErrClosed) { err = nil }
disconnectError(err) == IF err.closed THEN NoErr ELSE err

\* RunProxyWithEventCallback: the Data of relay-disconnected
disconnectData(err) == disconnectError(err).parts

\* RunProxyWithEventCallback emits relay-disconnected and returns
RunProxyReturns ==
    /\ ppc = "disc"
    /\ Emit(<<Event(TypeRelayDisconnected, disconnectData(perr), 0)>>)
    /\ ppc' = "ret"
    /\ UNCHANGED lvars
    /\ UNCHANGED <<relayConn, tls, openErr, perr, psess, fwd, watcher,
                   closedBecausePayloadDisconnected, reader, hs, opened,
                   lateEvents, staleWatchers>>
    /\ UNCHANGED <<rvars, unitVars>>

\* the session's receive loop finds the connection closed: the session
\* shuts down and closes its streams
ProxySessionCloses ==
    /\ psess = "open"
    /\ relayConn = "closed"
    /\ psess' = "closed"
    /\ hs' = [h \in Handlers |->
                IF hs[h].stream = "open" THEN [hs[h] EXCEPT !.stream = "closed"]
                ELSE hs[h]]
    /\ UNCHANGED lvars
    /\ UNCHANGED <<relayConn, tls, ppc, openErr, perr, fwd, watcher,
                   closedBecausePayloadDisconnected, reader, opened, events,
                   lateEvents, staleWatchers>>
    /\ UNCHANGED <<rvars, unitVars>>

\* (mutant) the watcher leaves the forwarding listener open
watcherCloses_Nothing(l) == l

\* the watcher's proxyListener.Close()
watcherCloses(l) == "closed"

\* go func() { <-sess.CloseChan(); closedBecausePayloadDisconnected = true
WatcherSetsFlag ==
    /\ watcher = "armed"
    /\ psess = "closed"
    /\ watcher' = "flagged"
    /\ closedBecausePayloadDisconnected' = TRUE
    /\ UNCHANGED lvars
    /\ UNCHANGED <<relayConn, tls, ppc, openErr, perr, psess, fwd, reader, hs,
                   opened, events, lateEvents, staleWatchers>>
    /\ UNCHANGED <<rvars, unitVars>>

\* err := proxyListener.Close() ... }: closing a listener that is already
\* closed fails, and the failure is emitted as an error event
WatcherFires ==
    /\ watcher = "flagged"
    /\ IF fwd = "open"
       THEN /\ fwd' = watcherCloses(fwd)
            /\ watcher' = "done"
            /\ UNCHANGED <<events, lateEvents>>
       ELSE /\ EmitBackground(Event(TypeError, <<"socks5 close", "use of closed network connection">>, 0))
            /\ watcher' = "failed"
            /\ UNCHANGED fwd
    /\ UNCHANGED lvars
    /\ UNCHANGED <<relayConn, tls, ppc, openErr, perr, psess,
                   closedBecausePayloadDisconnected, reader, hs, opened,
                   staleWatchers>>
    /\ UNCHANGED <<rvars, unitVars>>

\* the watcher of an earlier relay connection fires: its listener was closed
\* when its accept loop returned
StaleWatcherFires ==
    /\ staleWatchers > 0
    /\ staleWatchers' = staleWatchers - 1
    /\ lateEvents' = lateEvents + 1
    /\ UNCHANGED lvars
    /\ UNCHANGED <<relayConn, tls, ppc, openErr, perr, psess, fwd, watcher,
                   closedBecausePayloadDisconnected, reader, hs, opened,
                   events>>
    /\ UNCHANGED <<rvars, unitVars>>

----------------------------------------------------------------------------
(* proxyrelay: handleLocalProxyConn, one task per accepted local connection *)

\* (mutant) the handler task drops the error
handlerEvents_NoError(h, err) ==
    <<Event(TypeSOCKS5ConnectionClosed, formatAddr(PeerAddr(h)), h)>>

\* the events the handler task emits once handleLocalProxyConn has returned
handlerEvents(h, err) ==
    (IF err # NoErr
     THEN <<Event(TypeError, Wrap("handling socks5 connection", err).parts, h)>>
     ELSE <<>>)
    \o <<Event(TypeSOCKS5ConnectionClosed, formatAddr(PeerAddr(h)), h)>>

\* handleLocalProxyConn returns before the copy tasks and their deferred
\* Close calls exist: the local connection stays as it is
connAfterOpenFailure(conn) == conn

\* sess.Open() succeeds: both copy tasks start
HandlerOpens(h) ==
    /\ hs[h].pc = "open"
    /\ psess = "open"
    /\ hs' = [hs EXCEPT ![h].pc = "copy", ![h].stream = "open",
                        ![h].l2s = "run", ![h].s2l = "run"]
    /\ opened' = Append(opened, h)
    /\ acceptQ' = Append(acceptQ, h)
    /\ UNCHANGED lvars
    /\ UNCHANGED <<relayConn, tls, ppc, openErr, perr, psess, fwd, watcher,
                   closedBecausePayloadDisconnected, reader, events,
                   lateEvents, staleWatchers>>
    /\ UNCHANGED <<rpc, rsess, rctl, rfwd>>
    /\ UNCHANGED unitVars

\* sess.Open() fails (the session is shut down, or the write of the SYN
\* times out): the handler reports the error and connection-closed
HandlerOpenFails(h, err) ==
    /\ hs[h].pc = "open"
    /\ \/ psess = "closed" /\ err = ErrSessionShutdown
       \/ psess = "open" /\ err = ErrWriteTimeout
    /\ Emit(handlerEvents(h, Wrap("open multiplexed connection", err)))
    /\ hs' = [hs EXCEPT ![h].pc = "done",
                        ![h].conn = connAfterOpenFailure(hs[h].conn),
                        ![h].err = Wrap("open multiplexed connection", err)]
    /\ UNCHANGED lvars
    /\ UNCHANGED <<relayConn, tls, ppc, openErr, perr, psess, fwd, watcher,
                   closedBecausePayloadDisconnected, reader, opened,
                   lateEvents, staleWatchers>>
    /\ UNCHANGED <<rvars, unitVars>>

\* errgroup keeps the first error
firstError(old, new) == IF old = NoErr THEN new ELSE old

\* (mutant) a copy task returns without closing anything
copyReturns_NoClose(st, dir, err) ==
    [st EXCEPT !.l2s = IF dir = "l2s" THEN "done" ELSE @,
               !.s2l = IF dir = "s2l" THEN "done" ELSE @,
               !.err = firstError(@, err)]

\* a copy task returns: defer yamuxConn.Close(), defer conn.Close()
copyReturns(st, dir, err) ==
    [st EXCEPT !.conn = "closed", !.stream = "closed",
               !.l2s = IF dir = "l2s" THEN "done" ELSE @,
               !.s2l = IF dir = "s2l" THEN "done" ELSE @,
               !.err = firstError(@, err)]

\* io.Copy(yamuxConn, conn) ends without an error to report: EOF from the
\* local client (at any time), or conn closed under it by the other copy
\* task (net.ErrClosed, filtered)
CopyToStreamEnds(h) ==
    /\ hs[h].l2s = "run"
    /\ hs' = [hs EXCEPT ![h] = copyReturns(hs[h], "l2s", NoErr)]
    /\ UNCHANGED lvars
    /\ UNCHANGED <<relayConn, tls, ppc, openErr, perr, psess, fwd, watcher,
                   closedBecausePayloadDisconnected, reader, opened, events,
                   lateEvents, staleWatchers>>
    /\ UNCHANGED <<rvars, unitVars>>

\* io.Copy(conn, yamuxConn) ends without an error to report: EOF from the
\* stream, closed by the relay's SOCKS5 server once it has accepted it, by
\* the other copy task or with the session
CopyFromStreamEnds(h) ==
    /\ hs[h].s2l = "run"
    /\ h \in rfwd \/ hs[h].stream = "closed"
    /\ hs' = [hs EXCEPT ![h] = copyReturns(hs[h], "s2l", NoErr)]
    /\ UNCHANGED lvars
    /\ UNCHANGED <<relayConn, tls, ppc, openErr, perr, psess, fwd, watcher,
                   closedBecausePayloadDisconnected, reader, opened, events,
                   lateEvents, staleWatchers>>
    /\ UNCHANGED <<rvars, unitVars>>

\* a copy fails with an error that is not net.ErrClosed: data written to a
\* closed stream, or a reset of the local connection
CopyFails(h, dir) ==
    /\ hs[h][dir] = "run"
    /\ hs' = [hs EXCEPT ![h] = copyReturns(hs[h], dir,
                 IF dir = "l2s" THEN Wrap("proxy->relay", ErrStreamClosed)
                 ELSE Wrap("relay->proxy", NewErr("connection reset by peer")))]
    /\ UNCHANGED lvars
    /\ UNCHANGED <<relayConn, tls, ppc, openErr, perr, psess, fwd, watcher,
                   closedBecausePayloadDisconnected, reader, opened, events,
                   lateEvents, staleWatchers>>
    /\ UNCHANGED <<rvars, unitVars>>

\* (mutant) eg.Wait() returns with the first copy task
copiesDone_Either(st) == st.l2s = "done" \/ st.s2l = "done"

\* both copy tasks have returned
copiesDone(st) == st.l2s = "done" /\ st.s2l = "done"

\* eg.Wait() returns; the handler reports the error, if any, and emits
\* connection-closed
HandlerReturns(h) ==
    /\ hs[h].pc = "copy"
    /\ copiesDone(hs[h])
    /\ Emit(handlerEvents(h, hs[h].err))
    /\ hs' = [hs EXCEPT ![h].pc = "done"]
    /\ UNCHANGED lvars
    /\ UNCHANGED <<relayConn, tls, ppc, openErr, perr, psess, fwd, watcher,
                   closedBecausePayloadDisconnected, reader, opened,
                   lateEvents, staleWatchers>>
    /\ UNCHANGED <<rvars, unitVars>>

----------------------------------------------------------------------------
(* proxyrelay: handleErrorNotificationConnection *)

\* the control stream is at EOF (the session is shut down): the reader
\* returns without an event
ReaderEnds ==
    /\ reader = "run"
    /\ psess = "closed"
    /\ reader' = "done"
    /\ UNCHANGED lvars
    /\ UNCHANGED <<relayConn, tls, ppc, openErr, perr, psess, fwd, watcher,
                   closedBecausePayloadDisconnected, hs, opened, events,
                   lateEvents, staleWatchers>>
    /\ UNCHANGED <<rvars, unitVars>>

\* the event of a failed read of the message length
ReadLengthFailed ==
    Event(TypeError, <<"read message length from error notification connection", "stream reset">>, 0)

\* (mutant) the reader closes the session when a read fails
ReaderFails_ClosesSession ==
    /\ reader = "run"
    /\ psess = "open"
    /\ EmitBackground(ReadLengthFailed)
    /\ reader' = "failed"
    /\ psess' = "closed"
    /\ hs' = [h \in Handlers |->
                IF hs[h].stream = "open" THEN [hs[h] EXCEPT !.stream = "closed"]
                ELSE hs[h]]
    /\ UNCHANGED lvars
    /\ UNCHANGED <<relayConn, tls, ppc, openErr, perr, fwd, watcher,
                   closedBecausePayloadDisconnected, opened, staleWatchers>>
    /\ UNCHANGED <<rvars, unitVars>>

\* conn.Read fails on the control stream while the session is open (the
\* relay reset the stream): the reader emits the error and returns
ReaderFails ==
    /\ reader = "run"
    /\ psess = "open"
    /\ EmitBackground(ReadLengthFailed)
    /\ reader' = "failed"
    /\ UNCHANGED lvars
    /\ UNCHANGED <<relayConn, tls, ppc, openErr, perr, psess, fwd, watcher,
                   closedBecausePayloadDisconnected, hs, opened, staleWatchers>>
    /\ UNCHANGED <<rvars, unitVars>>

----------------------------------------------------------------------------
(* proxyrelay: RunRelayWithEventCallback *)

\* (mutant) Accept returns the stream opened last
acceptNext_Last(q) == q[Len(q)]

\* yamuxServer.Accept(): the streams arrive in the order they were opened
acceptNext(q) == Head(q)

\* the streams still to accept
acceptRest(q, s) == SelectSeq(q, LAMBDA x : x # s)

\* errConn, err := yamuxServer.Accept(): the first stream of the session
RelayAcceptsControl ==
    /\ rpc = "accept"
    /\ rsess = "open"
    /\ acceptQ # <<>>
    /\ rctl' = <<acceptNext(acceptQ)>>
    /\ acceptQ' = acceptRest(acceptQ, acceptNext(acceptQ))
    /\ rpc' = "serve"
    /\ UNCHANGED <<lvars, pvars, unitVars>>
    /\ UNCHANGED <<rsess, rfwd>>

\* socksServer.Serve(yamuxServer): l.Accept() returns the next stream and
\* ServeConn is started for it
RelayServesStream ==
    /\ rpc = "serve"
    /\ rsess = "open"
    /\ acceptQ # <<>>
    /\ rfwd' = rfwd \cup {acceptNext(acceptQ)}
    /\ acceptQ' = acceptRest(acceptQ, acceptNext(acceptQ))
    /\ UNCHANGED <<lvars, pvars, unitVars>>
    /\ UNCHANGED <<rpc, rsess, rctl>>

\* the relay's end of the connection is closed: its context is cancelled
\* (the watcher closes the session), the process ends or the network drops
RelayClosesConn ==
    /\ rpc \in {"accept", "serve"}
    /\ relayConn = "open"
    /\ relayConn' = "closed"
    /\ UNCHANGED lvars
    /\ UNCHANGED <<tls, ppc, openErr, perr, psess, fwd, watcher,
                   closedBecausePayloadDisconnected, reader, hs, opened,
                   events, lateEvents, staleWatchers>>
    /\ UNCHANGED <<rvars, unitVars>>

\* the relay's session finds the connection closed
RelaySessionCloses ==
    /\ rsess = "open"
    /\ relayConn = "closed"
    /\ rsess' = "closed"
    /\ UNCHANGED <<lvars, pvars, unitVars>>
    /\ UNCHANGED <<rpc, acceptQ, rctl, rfwd>>

\* Accept fails on the closed session: RunRelayWithEventCallback returns the
\* error; deferred errConn.Close(), yamuxServer.Close(), cancel()
RelayReturns ==
    /\ rpc \in {"accept", "serve"}
    /\ rsess = "closed"
    /\ rpc' = "returned"
    /\ UNCHANGED <<lvars, pvars, unitVars>>
    /\ UNCHANGED <<rsess, acceptQ, rctl, rfwd>>

----------------------------------------------------------------------------
\* one relay connection
CallNext ==
    \/ \E k \in 1..MaxKey, insecure \in BOOLEAN : RelayDial(k, insecure)
    \/ ListenerAccept
    \/ ListenerAcceptClosed
    \/ HandleRelayConnectionReturn
    \/ LoopCheck
    \/ CtxCancel
    \/ CtxClosesListener
    \/ CtxClosesRelayConn
    \/ OpenControlStream
    \/ \E err \in OpenFailures : OpenControlStreamFails(err)
    \/ ListenForward
    \/ ListenForwardFails
    \/ \E h \in Handlers : AcceptLocal(h)
    \/ \E err \in {ErrNetClosed, ErrAccept} : AcceptLocalFails(err)
    \/ AcceptLoopReturns
    \/ RunProxyReturns
    \/ ProxySessionCloses
    \/ WatcherSetsFlag
    \/ WatcherFires
    \/ \E h \in Handlers : HandlerOpens(h)
    \/ \E h \in Handlers, err \in {ErrSessionShutdown, ErrWriteTimeout} : HandlerOpenFails(h, err)
    \/ \E h \in Handlers : CopyToStreamEnds(h)
    \/ \E h \in Handlers : CopyFromStreamEnds(h)
    \/ \E h \in Handlers, dir \in {"l2s", "s2l"} : CopyFails(h, dir)
    \/ \E h \in Handlers : HandlerReturns(h)
    \/ ReaderEnds
    \/ RelayAcceptsControl
    \/ RelayServesStream
    \/ RelayClosesConn
    \/ RelaySessionCloses
    \/ RelayReturns

Next == CallNext \/ StaleWatcherFires

\* an experiment on its own: the tunnel does not run
UnitSpecInit ==
    /\ UnitInit
    /\ NetInit
    /\ dialLimit = 0
    /\ clients = 0

\* the handshake experiment
TLSStep == TLSNext /\ UNCHANGED <<lvars, pvars, rvars, ctlVars, cmdVars, keyVars, cfgVars, genVars, suVars, adVars, uiVars, cbVars, ivVars>>

SpecTLS == UnitSpecInit /\ [][TLSStep]_vars

Spec == Init /\ [][Next]_vars

SpecSession == SessionInit /\ [][CallNext]_vars

\* the listener serves one relay connection, with one local client
CallInit ==
    /\ NetInit
    /\ UnitInit
    /\ dialLimit = 1
    /\ clients = 1

SpecCall == CallInit /\ [][CallNext]_vars

----------------------------------------------------------------------------
(* the control channel: actions *)

Min(a, b) == IF a < b THEN a ELSE b

RECURSIVE BytesWritten(_)
BytesWritten(frames) ==
    IF frames = <<>> THEN 0 ELSE Len(Head(frames)) + BytesWritten(Tail(frames))

\* remoteLogger.Write(line): the local event, then one Conn.Write of the
\* length and the message, which fails on a closed stream
LoggerWrite(line) ==
    /\ Len(ctlLines) < MaxLines
    /\ ctlLines' = Append(ctlLines, line)
    /\ ctlRelayEvents' = Invoke(ctlRelayEvents,
          <<Event(TypeError, CtlData("socks", Buffer(Len(remoteLoggerMsg(line)), remoteLoggerMsg(line)), ""), 0)>>)
    /\ IF ctlEnd = "open"
       THEN /\ ctlWire' = ctlWire \o remoteLoggerFrame(line)
            /\ ctlFrames' = Append(ctlFrames, remoteLoggerFrame(line))
       ELSE /\ ctlFrames' = Append(ctlFrames, <<>>)
            /\ UNCHANGED ctlWire
    /\ UNCHANGED <<ctlBuf, ctlEnd, rdPc, rdSize, ctlEvents>>

\* the next k bytes reach the proxy's stream
Deliver(k) ==
    /\ ctlEnd # "reset"
    /\ k \in 1..Len(ctlWire)
    /\ ctlBuf' = ctlBuf \o SubSeq(ctlWire, 1, k)
    /\ ctlWire' = SubSeq(ctlWire, k + 1, Len(ctlWire))
    /\ UNCHANGED <<ctlLines, ctlFrames, ctlEnd, ctlRelayEvents, rdPc, rdSize, ctlEvents>>

\* the stream ends: closed by the relay or with the session (end of
\* stream), or reset; bytes on their way may be lost with the connection
StreamEnds(end, lost) ==
    /\ ctlEnd = "open"
    /\ ctlEnd' = end
    /\ ctlWire' = IF lost THEN <<>> ELSE ctlWire
    /\ UNCHANGED <<ctlLines, ctlFrames, ctlBuf, ctlRelayEvents, rdPc, rdSize, ctlEvents>>

\* conn.Read returns an error: io.EOF once a closed stream is drained, the
\* reset error at once
ReadError ==
    IF ctlEnd = "reset" THEN "stream reset"
    ELSE IF ctlEnd = "eof" /\ ctlBuf = <<>> /\ ctlWire = <<>> THEN "EOF"
    ELSE "none"

\* conn.Read(b) returns data: what the stream holds, at most len(b) bytes
ReadReturns(size) == SubSeq(ctlBuf, 1, Min(size, Len(ctlBuf)))

\* handleErrorNotificationConnection: the events of a failed Read
readErrorEvents(pc, err) ==
    IF pc = "len" /\ err = "EOF" THEN <<>>
    ELSE <<Event(TypeError,
                 CtlData(IF pc = "len"
                         THEN "read message length from error notification connection"
                         ELSE "read message from error notification connection",
                         Buffer(0, <<>>), err), 0)>>

\* lengthBytes := make([]byte, 4); _, err := conn.Read(lengthBytes);
\* msg := make([]byte, binary.BigEndian.Uint32(lengthBytes))
ReaderReadsLength ==
    /\ rdPc = "len"
    /\ ReadError = "none"
    /\ ctlBuf # <<>>
    /\ rdSize' = Uint32(LengthBytes(ReadReturns(4)))
    /\ ctlBuf' = SubSeq(ctlBuf, Len(ReadReturns(4)) + 1, Len(ctlBuf))
    /\ rdPc' = "msg"
    /\ UNCHANGED <<ctlLines, ctlFrames, ctlWire, ctlEnd, ctlRelayEvents, ctlEvents>>

\* _, err = conn.Read(msg); callback(Event{Type: TypeError, Data: string(msg)})
ReaderReadsMessage ==
    /\ rdPc = "msg"
    /\ ReadError = "none"
    /\ ctlBuf # <<>>
    /\ ctlEvents' = Invoke(ctlEvents,
          <<Event(TypeError, CtlData("message", Buffer(rdSize, ReadReturns(rdSize)), ""), 0)>>)
    /\ ctlBuf' = SubSeq(ctlBuf, Len(ReadReturns(rdSize)) + 1, Len(ctlBuf))
    /\ rdPc' = "len"
    /\ UNCHANGED <<ctlLines, ctlFrames, ctlWire, ctlEnd, ctlRelayEvents, rdSize>>

\* a Read fails and the reader returns
ReaderReadFails ==
    /\ rdPc \in {"len", "msg"}
    /\ ReadError # "none"
    /\ ctlEvents' = Invoke(ctlEvents, readErrorEvents(rdPc, ReadError))
    /\ rdPc' = "done"
    /\ UNCHANGED <<ctlLines, ctlFrames, ctlWire, ctlBuf, ctlEnd, ctlRelayEvents, rdSize>>

\* the relay's side alone
LoggerNext ==
    \/ \E line \in LogLines : LoggerWrite(line)
    \/ \E end \in {"eof", "reset"} : StreamEnds(end, TRUE)

LoggerStep == LoggerNext /\ UNCHANGED <<lvars, pvars, rvars, tlsVars, cmdVars, keyVars, cfgVars, genVars, suVars, adVars, uiVars, cbVars, ivVars>>

SpecLogger == UnitSpecInit /\ [][LoggerStep]_vars

\* the line fits into what the experiment with the reader writes
WithinBudget(line) ==
    BytesWritten(ctlFrames) + Len(remoteLoggerFrame(line)) <= MaxBytes

\* both sides
CtlNext ==
    \/ \E line \in LogLines : WithinBudget(line) /\ LoggerWrite(line)
    \/ \E k \in 1..Len(ctlWire) : Deliver(k)
    \/ \E end \in {"eof", "reset"}, lost \in BOOLEAN : StreamEnds(end, lost)
    \/ ReaderReadsLength
    \/ ReaderReadsMessage
    \/ ReaderReadFails

CtlStep == CtlNext /\ UNCHANGED <<lvars, pvars, rvars, tlsVars, cmdVars, keyVars, cfgVars, genVars, suVars, adVars, uiVars, cbVars, ivVars>>

SpecControl == UnitSpecInit /\ [][CtlStep]_vars

\* the SOCKS5 server of the relay logs a line while the relay serves
LoggerWhileServing(line) ==
    /\ rpc = "serve"
    /\ Len(ctlLines) < MaxServedLines
    /\ LoggerWrite(line)
    /\ UNCHANGED <<lvars, pvars, rvars, tlsVars, cmdVars, keyVars, cfgVars, genVars, suVars, adVars, uiVars, cbVars, ivVars>>

\* both coordinators with every task they start
CoordinatorsNext ==
    \/ CallNext
    \/ ReaderFails
    \/ \E line \in LogLines : LoggerWhileServing(line)

\* one relay connection with one local client; the coordinators are given a
\* callback or nil
CoordinatorsInit ==
    /\ TLSInit
    /\ CtlInit
    /\ CmdInit
    /\ KeyInit
    /\ CfgInit
    /\ GenInit
    /\ SetupInit
    /\ AddrInit
    /\ UIInit
    /\ InvocationsInit
    /\ callback \in {"set", "nil"}
    /\ NetInit
    /\ dialLimit = 1
    /\ clients = 1

SpecCoordinators == CoordinatorsInit /\ [][CoordinatorsNext]_vars

----------------------------------------------------------------------------
(* the relay command: actions *)

\* tlsConfig, err := clientTLSConfig(connectionKey, insecure)
CmdConfig ==
    /\ cmdPc = "config"
    /\ IF clientTLSConfigErr(cmdKey, cmdInsecure) # NoErr
       THEN /\ cmdRet' = Wrap("build TLS config", clientTLSConfigErr(cmdKey, cmdInsecure))
            /\ cmdPc' = "returned"
       ELSE /\ cmdPc' = "dial"
            /\ UNCHANGED cmdRet
    /\ UNCHANGED <<cmdKey, cmdInsecure, reconnectAfter, cmdDials, cmdSleeps, cmdConn,
                   cmdSess, cmdPending, cmdCtl, cmdWatchers, cmdErr>>

\* connectBackAndRelay: tls.DialWithDialer fails (refused, timeout, handshake)
CmdDialFails ==
    /\ cmdPc = "dial"
    /\ cmdDials < MaxDials
    /\ cmdDials' = cmdDials + 1
    /\ cmdErr' = Wrap("dial", ErrDial)
    /\ cmdPc' = "loop"
    /\ UNCHANGED <<cmdKey, cmdInsecure, reconnectAfter, cmdSleeps, cmdConn, cmdSess,
                   cmdPending, cmdCtl, cmdWatchers, cmdRet>>

\* connectBackAndRelay: the dial succeeds; RunRelayWithEventCallback derives
\* its context, yamux.Server (which accepts yamuxCfg()) starts the session,
\* the context watcher is started, and yamuxServer.Accept() is called
CmdDialSucceeds ==
    /\ cmdPc = "dial"
    /\ cmdDials < MaxDials
    /\ cmdDials' = cmdDials + 1
    /\ cmdConn' = "open"
    /\ cmdSess' = "open"
    /\ cmdPending' = FALSE
    /\ cmdCtl' = "none"
    /\ cmdErr' = NoErr
    /\ cmdPc' = "accept"
    /\ UNCHANGED <<cmdKey, cmdInsecure, reconnectAfter, cmdSleeps, cmdWatchers, cmdRet>>

\* the listener's side opens the first stream of the session
CmdPeerOpensControl ==
    /\ cmdPc = "accept"
    /\ cmdSess = "open"
    /\ ~cmdPending
    /\ cmdPending' = TRUE
    /\ UNCHANGED <<cmdKey, cmdInsecure, reconnectAfter, cmdPc, cmdDials, cmdSleeps,
                   cmdConn, cmdSess, cmdCtl, cmdWatchers, cmdErr, cmdRet>>

\* errConn, err := yamuxServer.Accept() returns the stream; socks5.New;
\* socksServer.Serve(yamuxServer) waits in Accept
CmdAcceptsControl ==
    /\ cmdPc = "accept"
    /\ cmdSess = "open"
    /\ cmdPending
    /\ cmdPending' = FALSE
    /\ cmdCtl' = "open"
    /\ cmdPc' = "serve"
    /\ UNCHANGED <<cmdKey, cmdInsecure, reconnectAfter, cmdDials, cmdSleeps, cmdConn,
                   cmdSess, cmdWatchers, cmdErr, cmdRet>>

\* the session shuts down: the listener's side closes or rejects the
\* connection, the network drops, a keep-alive times out; the session
\* closes the connection and its streams
CmdSessionCloses ==
    /\ cmdSess = "open"
    /\ cmdSess' = "closed"
    /\ cmdConn' = "closed"
    /\ cmdCtl' = IF cmdCtl = "open" THEN "closed" ELSE cmdCtl
    /\ UNCHANGED <<cmdKey, cmdInsecure, reconnectAfter, cmdPc, cmdDials, cmdSleeps,
                   cmdPending, cmdWatchers, cmdErr, cmdRet>>

\* (mutant) Accept fails on a running session
acceptFails_Anytime(sess) == TRUE

\* yamuxServer.Accept() returns an error: the session has shut down
acceptFails(sess) == sess = "closed"

\* defer errConn.Close()
deferredCtl(ctl) == IF ctl = "none" THEN "none" ELSE "closed"

\* RunRelayWithEventCallback returns with err; its deferred errConn.Close(),
\* yamuxServer.Close() and cancel() run, then connectBackAndRelay's deferred
\* conn.Close(); the cancelled context wakes the context watcher
CmdRunRelayReturns(err) ==
    /\ acceptFails(cmdSess)
    /\ cmdErr' = err
    /\ cmdCtl' = deferredCtl(cmdCtl)
    /\ cmdSess' = "closed"
    /\ cmdConn' = "closed"
    /\ cmdWatchers' = cmdWatchers + 1
    /\ cmdPc' = "loop"
    /\ UNCHANGED <<cmdKey, cmdInsecure, reconnectAfter, cmdDials, cmdSleeps,
                   cmdPending, cmdRet>>

\* errConn, err := yamuxServer.Accept() fails
CmdAcceptFails ==
    /\ cmdPc = "accept"
    /\ CmdRunRelayReturns(Wrap("accept error notification connection", ErrSessionShutdown))

\* socksServer.Serve(yamuxServer) fails: its Accept returned an error
CmdServeFails ==
    /\ cmdPc = "serve"
    /\ CmdRunRelayReturns(Wrap("socks5 server", ErrSessionShutdown))

\* go func() { <-ctx.Done(); yamuxServer.Close() }(): Close on the session of
\* the call that has returned, which its deferred Close already closed
CmdWatcherFires ==
    /\ cmdWatchers > 0
    /\ cmdWatchers' = cmdWatchers - 1
    /\ UNCHANGED <<cmdKey, cmdInsecure, reconnectAfter, cmdPc, cmdDials, cmdSleeps,
                   cmdConn, cmdSess, cmdPending, cmdCtl, cmdErr, cmdRet>>

\* (mutant) the delay grows with the attempts
sleepDuration_Backoff(interval, attempt) == interval * attempt

\* time.Sleep(reconnectAfter)
sleepDuration(interval, attempt) == interval

\* runRemoteProxyRelay after connectBackAndRelay has returned
CmdLoop ==
    /\ cmdPc = "loop"
    /\ IF reconnectAfter = 0
       THEN /\ cmdRet' = cmdErr
            /\ cmdPc' = "returned"
            /\ UNCHANGED cmdSleeps
       ELSE /\ cmdSleeps' = Append(cmdSleeps, sleepDuration(reconnectAfter, cmdDials))
            /\ cmdPc' = "sleep"
            /\ UNCHANGED cmdRet
    /\ UNCHANGED <<cmdKey, cmdInsecure, reconnectAfter, cmdDials, cmdConn, cmdSess,
                   cmdPending, cmdCtl, cmdWatchers, cmdErr>>

\* time.Sleep returns, the loop dials again
CmdSleepEnds ==
    /\ cmdPc = "sleep"
    /\ cmdPc' = "dial"
    /\ UNCHANGED <<cmdKey, cmdInsecure, reconnectAfter, cmdDials, cmdSleeps, cmdConn,
                   cmdSess, cmdPending, cmdCtl, cmdWatchers, cmdErr, cmdRet>>

CmdNext ==
    \/ CmdConfig
    \/ CmdDialFails
    \/ CmdDialSucceeds
    \/ CmdPeerOpensControl
    \/ CmdAcceptsControl
    \/ CmdSessionCloses
    \/ CmdAcceptFails
    \/ CmdServeFails
    \/ CmdWatcherFires
    \/ CmdLoop
    \/ CmdSleepEnds

CmdStep == CmdNext /\ UNCHANGED <<lvars, pvars, rvars, tlsVars, ctlVars, keyVars, cfgVars, genVars, suVars, adVars, uiVars, cbVars, ivVars>>

\* the relay command on its own
CmdSpecInit ==
    /\ TLSInit
    /\ CtlInit
    /\ InvocationsInit
    /\ CallbackInit
    /\ UIInit
    /\ AddrInit
    /\ SetupInit
    /\ GenInit
    /\ CfgInit
    /\ KeyInit
    /\ CmdRunInit
    /\ NetInit
    /\ dialLimit = 0
    /\ clients = 0

SpecRelayCmd == CmdSpecInit /\ [][CmdStep]_vars

----------------------------------------------------------------------------
(* pbtls on the bytes of the key: actions *)

\* key.String()
KeyString ==
    /\ keyPc = "key"
    /\ keyStr' = String(keyA)
    /\ keyPc' = "string"
    /\ UNCHANGED <<keyA, keyB, keyNow, keyParsed, caA1, caA2, caB>>

\* ParseConnectionKey(key.String())
KeyParse ==
    /\ keyPc = "string"
    /\ keyParsed' = ParseConnectionKey(keyStr)
    /\ keyPc' = "parsed"
    /\ UNCHANGED <<keyA, keyB, keyNow, keyStr, caA1, caA2, caB>>

\* generateCA(keyA), generateCA(keyA) again, generateCA(keyB), each at a
\* later time
KeyGenerateCA ==
    /\ keyPc \in {"parsed", "ca1", "ca2"}
    /\ caA1' = IF keyPc = "parsed" THEN CACertificate(keyA, keyNow) ELSE caA1
    /\ caA2' = IF keyPc = "ca1" THEN CACertificate(keyA, keyNow) ELSE caA2
    /\ caB' = IF keyPc = "ca2" THEN CACertificate(keyB, keyNow) ELSE caB
    /\ keyNow' = keyNow + 1
    /\ keyPc' = IF keyPc = "parsed" THEN "ca1" ELSE IF keyPc = "ca1" THEN "ca2" ELSE "done"
    /\ UNCHANGED <<keyA, keyB, keyStr, keyParsed>>

KeyNext ==
    \/ KeyString
    \/ KeyParse
    \/ KeyGenerateCA

KeyStep == KeyNext /\ UNCHANGED <<lvars, pvars, rvars, tlsVars, ctlVars, cmdVars, cfgVars, genVars, suVars, adVars, uiVars, cbVars, ivVars>>

KeySpecInit ==
    /\ TLSInit
    /\ CtlInit
    /\ InvocationsInit
    /\ CallbackInit
    /\ UIInit
    /\ AddrInit
    /\ SetupInit
    /\ GenInit
    /\ CfgInit
    /\ CmdInit
    /\ KeyRunInit
    /\ NetInit
    /\ dialLimit = 0
    /\ clients = 0

SpecKey == KeySpecInit /\ [][KeyStep]_vars

----------------------------------------------------------------------------
(* the TLS configurations: actions *)

\* every function is applied in turn, each call at a later time
CfgApply ==
    /\ cfgPc \in {"parse", "ca", "server", "client", "named", "relay"}
    /\ cfgParsed' = IF cfgPc = "parse" THEN ParseConnectionKey(cfgText) ELSE cfgParsed
    /\ cfgCA' = IF cfgPc = "ca" THEN CACertificate(cfgKey, cfgNow) ELSE cfgCA
    /\ cfgServer' = IF cfgPc = "server" THEN kbtlsServerTLSConfig(cfgKey, cfgNow) ELSE cfgServer
    /\ cfgClient' = IF cfgPc = "client" THEN kbtlsClientTLSConfig(cfgKey, cfgNow) ELSE cfgClient
    /\ cfgNamed' = IF cfgPc = "named"
                   THEN kbtlsClientTLSConfigForClientName(cfgKey, cfgName, cfgNow)
                   ELSE cfgNamed
    /\ cfgRelay' = IF cfgPc = "relay" THEN clientTLSConfig(cfgText, cfgInsecure, cfgNow)
                   ELSE cfgRelay
    /\ cfgNow' = cfgNow + 1
    /\ cfgPc' = CASE cfgPc = "parse" -> "ca"
                  [] cfgPc = "ca" -> "server"
                  [] cfgPc = "server" -> "client"
                  [] cfgPc = "client" -> "named"
                  [] cfgPc = "named" -> "relay"
                  [] cfgPc = "relay" -> "listen"
    /\ UNCHANGED <<cfgKey, cfgText, cfgInsecure, cfgName, cfgGenerated, cfgListen>>

\* serverTLSConfig(connectionKey, insecure); without a key text
\* GenerateConnectionKey is called
CfgListen(generated) ==
    /\ cfgPc = "listen"
    /\ cfgGenerated' = generated
    /\ cfgListen' = serverTLSConfig(cfgText, cfgInsecure, generated, cfgNow)
    /\ cfgNow' = cfgNow + 1
    /\ cfgPc' = "done"
    /\ UNCHANGED <<cfgKey, cfgText, cfgInsecure, cfgName, cfgParsed, cfgCA, cfgServer,
                   cfgClient, cfgNamed, cfgRelay>>

CfgNext ==
    \/ CfgApply
    \/ \E generated \in (IF cfgText = EmptyText THEN GenerateOutcomes ELSE {NoKey}) :
          CfgListen(generated)

CfgStep == CfgNext /\ UNCHANGED <<lvars, pvars, rvars, tlsVars, ctlVars, cmdVars, keyVars, genVars, suVars, adVars, uiVars, cbVars, ivVars>>

CfgSpecInit ==
    /\ TLSInit
    /\ CtlInit
    /\ InvocationsInit
    /\ CallbackInit
    /\ UIInit
    /\ AddrInit
    /\ SetupInit
    /\ GenInit
    /\ CmdInit
    /\ KeyInit
    /\ CfgRunInit
    /\ NetInit
    /\ dialLimit = 0
    /\ clients = 0

SpecConfig == CfgSpecInit /\ [][CfgStep]_vars

----------------------------------------------------------------------------
(* GenerateConnectionKey: actions *)

\* rand.Read fills connectionKey with k; an all-zero key is drawn again,
\* any other key is returned. (rand.Read without an error has filled the
\* whole slice, so n is SeedSize.)
GenDraw(k) ==
    /\ genPc = "loop"
    /\ genI < maxAttempts
    /\ genKey' = k
    /\ genDraws' = genDraws + 1
    /\ IF isZeroBytes(k)
       THEN /\ genI' = genI + 1
            /\ UNCHANGED <<genPc, genErr>>
       ELSE /\ genPc' = "returned"
            /\ UNCHANGED <<genI, genErr>>

\* rand.Read returns an error
GenReadFails ==
    /\ genPc = "loop"
    /\ genI < maxAttempts
    /\ genDraws' = genDraws + 1
    /\ genErr' = Wrap("read random bytes", NewErr("entropy source failed"))
    /\ genPc' = "returned"
    /\ UNCHANGED <<genI, genKey>>

\* after the loop: checkKeyBytes(connectionKey[:]) and, if that finds no
\* fault, the error of the exhausted attempts
GenExhausted ==
    /\ genPc = "loop"
    /\ genI >= maxAttempts
    /\ genErr' = IF checkKeyBytesErr(genKey) # NoErr THEN checkKeyBytesErr(genKey)
                 ELSE ErrExhausted
    /\ genPc' = "returned"
    /\ UNCHANGED <<genI, genKey, genDraws>>

GenNext ==
    \/ \E k \in KeySeeds : GenDraw(k)
    \/ GenReadFails
    \/ GenExhausted

GenStep == GenNext /\ UNCHANGED <<lvars, pvars, rvars, tlsVars, ctlVars, cmdVars, keyVars, cfgVars, suVars, adVars, uiVars, cbVars, ivVars>>

GenSpecInit ==
    /\ TLSInit
    /\ CtlInit
    /\ InvocationsInit
    /\ CallbackInit
    /\ UIInit
    /\ AddrInit
    /\ SetupInit
    /\ CmdInit
    /\ KeyInit
    /\ CfgInit
    /\ GenRunInit
    /\ NetInit
    /\ dialLimit = 0
    /\ clients = 0

SpecGenerate == GenSpecInit /\ [][GenStep]_vars

----------------------------------------------------------------------------
(* runLocalSocksProxy and runRemoteProxyRelay: actions *)

ShutdownMessage == [Type |-> "shutdownMessage", Data |-> <<>>, conn |-> 0]

ErrUI == NewErr("run terminal program")

\* what waitForUItoShutdown can return
UIErrors == {NoErr, ErrUI}

\* what handleRelayConnection of package proxyrelay can return
RunProxyErrors ==
    { NoErr,
      Wrap("initialize multiplexer", NewErr("invalid configuration")),
      openControlError(ErrSessionShutdown),
      openControlError(ErrWriteTimeout),
      openControlError(ErrNetClosed),
      Wrap("proxy", Wrap("listen for relay connection", ErrAddrInUse)),
      proxyError(acceptLoopError(FALSE, ErrAccept)),
      proxyError(acceptLoopError(FALSE, ErrNetClosed)) }

\* (mutant) the error of serverTLSConfig is not checked
LcConfig_IgnoresError(generated) ==
    /\ lcPc = "config"
    /\ lcPc' = "listen"
    /\ UNCHANGED <<suText, suInsecure, suAbort, suReconnect, lcErr, lcRet, lcListener,
                   lcCtxDone, lcAccepts, lcUI, lcOccurred, rlPc, rlRet, rlDials>>

\* tlsConfig, key, err := serverTLSConfig(connectionKey, insecure), and
\* startUI when there is no error
LcConfig(generated) ==
    /\ lcPc = "config"
    /\ LET r == serverTLSConfig(suText, suInsecure, generated, 1) IN
       IF r.err # NoErr
       THEN /\ lcErr' = Wrap("build TLS config", r.err)
            /\ lcRet' = Wrap("build TLS config", r.err)
            /\ lcPc' = "returned"
       ELSE /\ lcPc' = "listen"
            /\ UNCHANGED <<lcErr, lcRet>>
    /\ UNCHANGED <<suText, suInsecure, suAbort, suReconnect, lcListener, lcCtxDone,
                   lcAccepts, lcUI, lcOccurred, rlPc, rlRet, rlDials>>

\* listener, err := tls.Listen("tcp", connectBackAddr, tlsConfig)
LcListen(err) ==
    /\ lcPc = "listen"
    /\ IF err # NoErr
       THEN /\ lcErr' = Wrap("listen for relay connection", err)
            /\ lcPc' = "deferred"
            /\ UNCHANGED lcListener
       ELSE /\ lcListener' = "open"
            /\ lcPc' = "accept"
            /\ UNCHANGED lcErr
    /\ UNCHANGED <<suText, suInsecure, suAbort, suReconnect, lcRet, lcCtxDone,
                   lcAccepts, lcUI, lcOccurred, rlPc, rlRet, rlDials>>

\* handleRelayConnection: listener.Accept() returns a connection and
\* RunProxyWithEventCallback emits relay-connected
LcAccept ==
    /\ lcPc = "accept"
    /\ lcListener = "open"
    /\ lcAccepts < MaxAccepts
    /\ lcAccepts' = lcAccepts + 1
    /\ lcUI' = Append(lcUI, Event(TypeRelayConnected, <<"relay address">>, 0))
    /\ lcPc' = "run"
    /\ UNCHANGED <<suText, suInsecure, suAbort, suReconnect, lcErr, lcRet, lcListener,
                   lcCtxDone, lcOccurred, rlPc, rlRet, rlDials>>

\* handleRelayConnection: listener.Accept() fails, with net.ErrClosed when
\* the listener is closed; err = handleRelayConnection(...)
LcAcceptFails(err) ==
    /\ lcPc = "accept"
    /\ lcAccepts < MaxAccepts \/ lcListener = "closed"
    /\ err = ErrNetClosed <=> lcListener = "closed"
    /\ lcAccepts' = lcAccepts + 1
    /\ lcErr' = Wrap("accept relay connection", err)
    /\ lcOccurred' = lcOccurred \cup {Wrap("accept relay connection", err)}
    /\ lcPc' = "check"
    /\ UNCHANGED <<suText, suInsecure, suAbort, suReconnect, lcRet, lcListener,
                   lcCtxDone, lcUI, rlPc, rlRet, rlDials>>

\* RunProxyWithEventCallback's handleRelayConnection returns err: the
\* callback gets relay-disconnected, and err = handleRelayConnection(...)
\* of runLocalSocksProxy gets what RunProxyWithEventCallback returns
LcRunProxyReturns(err) ==
    /\ lcPc = "run"
    /\ lcOccurred' = IF err = NoErr THEN lcOccurred ELSE lcOccurred \cup {err}
    /\ lcUI' = Append(lcUI, Event(TypeRelayDisconnected, disconnectData(err), 0))
    /\ lcErr' = disconnectError(err)
    /\ lcPc' = "check"
    /\ UNCHANGED <<suText, suInsecure, suAbort, suReconnect, lcRet, lcListener,
                   lcCtxDone, lcAccepts, rlPc, rlRet, rlDials>>

\* if errors.Is(err, net.ErrClosed) { err = nil };
\* if abortOnDisconnect || ctx.Err() != nil { return nil }
LcCheck ==
    /\ lcPc = "check"
    /\ IF loopReturns(suAbort, lcCtxDone)
       THEN /\ lcErr' = NoErr
            /\ lcPc' = "deferred"
       ELSE /\ lcErr' = disconnectError(lcErr)
            /\ lcPc' = "accept"
    /\ UNCHANGED <<suText, suInsecure, suAbort, suReconnect, lcRet, lcListener,
                   lcCtxDone, lcAccepts, lcUI, lcOccurred, rlPc, rlRet, rlDials>>

\* the user ends the UI (ctrl+c): waitForUItoShutdown returns and the
\* goroutine calls cancel(), on which the listener is closed
LcCancel ==
    /\ lcPc \in {"listen", "accept", "run", "check"}
    /\ ~lcCtxDone
    /\ lcCtxDone' = TRUE
    /\ lcListener' = IF lcListener = "open" THEN "closed" ELSE lcListener
    /\ UNCHANGED <<suText, suInsecure, suAbort, suReconnect, lcPc, lcErr, lcRet,
                   lcAccepts, lcUI, lcOccurred, rlPc, rlRet, rlDials>>

\* the value the caller gets: the goroutine's "if err == nil ||
\* errors.Is(err, net.ErrClosed) { err = uiErr }" is not synchronised with
\* the return, so its assignment is seen (first) or not
returnedError(err, uiErr, first) ==
    IF first /\ (err = NoErr \/ err.closed) THEN uiErr ELSE err

\* the deferred calls of a return after startUI: listener.Close(),
\* updateUI(shutdownMessage{}), <-uiShutdown and cancel(); then the caller
\* gets the named result
LcReturn(uiErr, first) ==
    /\ lcPc = "deferred"
    /\ lcListener' = IF lcListener = "open" THEN "closed" ELSE lcListener
    /\ lcUI' = Append(lcUI, ShutdownMessage)
    /\ lcCtxDone' = TRUE
    /\ lcRet' = returnedError(lcErr, uiErr, first)
    /\ lcPc' = "returned"
    /\ UNCHANGED <<suText, suInsecure, suAbort, suReconnect, lcErr, lcAccepts,
                   lcOccurred, rlPc, rlRet, rlDials>>

\* runRemoteProxyRelay: tlsConfig, err := clientTLSConfig(connectionKey, insecure)
RlConfig ==
    /\ rlPc = "config"
    /\ LET r == clientTLSConfig(suText, suInsecure, 1) IN
       IF r.err # NoErr
       THEN /\ rlRet' = Wrap("build TLS config", r.err)
            /\ rlPc' = "returned"
       ELSE /\ rlPc' = "connect"
            /\ UNCHANGED rlRet
    /\ UNCHANGED <<suText, suInsecure, suAbort, suReconnect, lcPc, lcErr, lcRet,
                   lcListener, lcCtxDone, lcAccepts, lcUI, lcOccurred, rlDials>>

\* runRemoteProxyRelay's loop: connectBackAndRelay dials and returns err;
\* without --reconnect-after the command returns err, else it sleeps and
\* connects again
RlConnectBack(err) ==
    /\ rlPc = "connect"
    /\ rlDials < MaxConnectBacks
    /\ rlDials' = rlDials + 1
    /\ IF suReconnect = 0
       THEN /\ rlRet' = err
            /\ rlPc' = "returned"
       ELSE UNCHANGED <<rlRet, rlPc>>
    /\ UNCHANGED <<suText, suInsecure, suAbort, suReconnect, lcPc, lcErr, lcRet,
                   lcListener, lcCtxDone, lcAccepts, lcUI, lcOccurred>>

SetupNext ==
    \/ \E generated \in (IF suText = EmptyText THEN GenerateOutcomes ELSE {NoKey}) :
          LcConfig(generated)
    \/ \E err \in {NoErr, ErrAddrInUse} : LcListen(err)
    \/ LcAccept
    \/ \E err \in {ErrNetClosed, ErrAccept} : LcAcceptFails(err)
    \/ \E err \in RunProxyErrors : LcRunProxyReturns(err)
    \/ LcCheck
    \/ LcCancel
    \/ \E uiErr \in UIErrors, first \in BOOLEAN : LcReturn(uiErr, first)
    \/ RlConfig
    \/ \E err \in {NoErr, Wrap("dial", ErrDial)} : RlConnectBack(err)

SetupStep == SetupNext /\ UNCHANGED <<lvars, pvars, rvars, tlsVars, ctlVars, cmdVars, keyVars, cfgVars, genVars, adVars, uiVars, cbVars, ivVars>>

SetupSpecInit ==
    /\ TLSInit
    /\ CtlInit
    /\ InvocationsInit
    /\ CallbackInit
    /\ UIInit
    /\ AddrInit
    /\ CmdInit
    /\ KeyInit
    /\ CfgInit
    /\ GenInit
    /\ SetupRunInit
    /\ NetInit
    /\ dialLimit = 0
    /\ clients = 0

SpecSetup == SetupSpecInit /\ [][SetupStep]_vars

----------------------------------------------------------------------------
(* withDefaultPort: actions *)

\* withDefaultPort(addr, port)
AddrApply ==
    /\ adPc = "once"
    /\ adOnce' = withDefaultPort(adAddr, adPort)
    /\ adPc' = "twice"
    /\ UNCHANGED <<adAddr, adPort, adTwice>>

\* withDefaultPort(withDefaultPort(addr, port), port), as listenCommand's
\* RunE does with the flag's default value
AddrApplyAgain ==
    /\ adPc = "twice"
    /\ adTwice' = withDefaultPort(adOnce, adPort)
    /\ adPc' = "done"
    /\ UNCHANGED <<adAddr, adPort, adOnce>>

AddrNext == AddrApply \/ AddrApplyAgain

AddrStep == AddrNext /\ UNCHANGED <<lvars, pvars, rvars, tlsVars, ctlVars, cmdVars, keyVars, cfgVars, genVars, suVars, uiVars, cbVars, ivVars>>

AddrSpecInit ==
    /\ TLSInit
    /\ CtlInit
    /\ InvocationsInit
    /\ CallbackInit
    /\ UIInit
    /\ CmdInit
    /\ KeyInit
    /\ CfgInit
    /\ GenInit
    /\ SetupInit
    /\ AddrRunInit
    /\ NetInit
    /\ dialLimit = 0
    /\ clients = 0

SpecAddr == AddrSpecInit /\ [][AddrStep]_vars

----------------------------------------------------------------------------
(* The terminal UI's model: actions *)

\* the case proxyrelay.TypeError of Update: the Data that is logged
loggedData(data) == IF data # <<>> THEN <<"unknown error">> ELSE data

\* the case proxyrelay.Event of Update
updateEvent(m, msg, now) ==
    IF msg.Type = TypeRelayConnected
    THEN [m EXCEPT !.connection = [IP |-> msg.Data, Start |-> now, End |-> 0 - 1, Error |-> <<>>]]
    ELSE IF msg.Type = TypeRelayDisconnected
    THEN IF m.connection # NoConnection
         THEN [m EXCEPT !.previousConnections =
                            Append(@, [m.connection EXCEPT !.End = now, !.Error = msg.Data]),
                        !.connection = NoConnection,
                        !.errors = <<>>]
         ELSE [m EXCEPT !.errors = <<>>]
    ELSE IF msg.Type = TypeSOCKS5Active THEN [m EXCEPT !.socksActive = TRUE]
    ELSE IF msg.Type = TypeSOCKS5Inactive THEN [m EXCEPT !.socksActive = FALSE]
    ELSE IF msg.Type = TypeError
    THEN [m EXCEPT !.errors = Append(@, [Error |-> loggedData(msg.Data), Time |-> now])]
    ELSE m

\* Update with a proxyrelay.Event
UpdateEvent(msg) ==
    /\ uiPc = "run"
    /\ uiNow < MaxMessages
    /\ uiNow' = uiNow + 1
    /\ uiMsg' = msg
    /\ uiModel' = updateEvent(uiModel, msg, uiNow')
    /\ UNCHANGED uiPc

\* Update with shutdownMessage or ctrl+c: tea.Quit
UpdateQuit(msg) ==
    /\ uiPc = "run"
    /\ uiNow < MaxMessages
    /\ msg = ShutdownMessage \/ msg.Data = <<"ctrl+c">>
    /\ uiNow' = uiNow + 1
    /\ uiMsg' = msg
    /\ uiModel' = [uiModel EXCEPT !.quitting = TRUE]
    /\ uiPc' = "quit"

\* Update with another key
UpdateKey(msg) ==
    /\ uiPc = "run"
    /\ uiNow < MaxMessages
    /\ msg.Data # <<"ctrl+c">>
    /\ uiNow' = uiNow + 1
    /\ uiMsg' = msg
    /\ UNCHANGED <<uiModel, uiPc>>

\* Update with tickMsg
UpdateTick ==
    /\ uiPc = "run"
    /\ uiNow < MaxMessages
    /\ uiNow' = uiNow + 1
    /\ uiMsg' = TickMessage
    /\ uiModel' = [uiModel EXCEPT !.dotCount = (@ + 1) % 4]
    /\ UNCHANGED uiPc

UINext ==
    \/ \E t \in UIEventTypes, d \in UIData : UpdateEvent(Event(t, d, 0))
    \/ \E msg \in KeyMessages \cup {ShutdownMessage} : UpdateQuit(msg)
    \/ \E msg \in KeyMessages : UpdateKey(msg)
    \/ UpdateTick

UIStep == UINext /\ UNCHANGED <<lvars, pvars, rvars, tlsVars, ctlVars, cmdVars, keyVars, cfgVars, genVars, suVars, adVars, cbVars, ivVars>>

UISpecInit ==
    /\ TLSInit
    /\ CtlInit
    /\ InvocationsInit
    /\ CallbackInit
    /\ CmdInit
    /\ KeyInit
    /\ CfgInit
    /\ GenInit
    /\ SetupInit
    /\ AddrInit
    /\ UIRunInit
    /\ NetInit
    /\ dialLimit = 0
    /\ clients = 0

SpecUI == UISpecInit /\ [][UIStep]_vars

----------------------------------------------------------------------------
(* The invocations of the callback: actions *)

\* a task calls the callback: no lock is taken, nothing is waited for
CallbackCalled(t) ==
    /\ ivTask[t] \in AtCallback
    /\ t \notin ivIn
    /\ ivIn' = ivIn \cup {t}
    /\ UNCHANGED <<ivTask, ivConn>>

\* where a task goes on when the callback has returned
afterCallback(pos) ==
    CASE pos = "relay connected" -> "open"
      [] pos = "active" -> "accept"
      [] pos = "opened" -> "accept"
      [] pos = "inactive" -> "relay disconnected"
      [] pos = "relay disconnected" -> "done"
      [] pos = "message" -> "read"
      [] pos = "read error" -> "done"
      [] pos = "close error" -> "done"
      [] pos = "error" -> "closed"
      [] pos = "closed" -> "done"

\* the callback returns; after forwarding-active the watcher is started,
\* after connection-opened the handler of the accepted connection
CallbackReturns(t) ==
    /\ t \in ivIn
    /\ ivIn' = ivIn \ {t}
    /\ ivTask' =
          [u \in Tasks |->
              IF u = t THEN afterCallback(ivTask[t])
              ELSE IF t = CallTask /\ ivTask[t] = "active" /\ u = WatcherTask THEN "armed"
              ELSE IF t = CallTask /\ ivTask[t] = "opened" /\ u = ivConn THEN "copy"
              ELSE ivTask[u]]
    /\ UNCHANGED ivConn

\* client.Open() succeeds, the reader is started and the listener is bound;
\* or one of them fails
CallOpens(ok) ==
    /\ ivTask[CallTask] = "open"
    /\ ivTask' = IF ok
                 THEN [ivTask EXCEPT ![CallTask] = "active", ![ReaderTask] = "read"]
                 ELSE [ivTask EXCEPT ![CallTask] = "relay disconnected"]
    /\ UNCHANGED <<ivIn, ivConn>>

\* proxyListener.Accept() returns the next local connection
CallAccepts(h) ==
    /\ ivTask[CallTask] = "accept"
    /\ ivTask[h] = "none"
    /\ \A g \in Handlers : g < h => ivTask[g] # "none"
    /\ ivConn' = h
    /\ ivTask' = [ivTask EXCEPT ![CallTask] = "opened"]
    /\ UNCHANGED ivIn

\* proxyListener.Accept() fails: the deferred wg.Wait()
CallAcceptFails ==
    /\ ivTask[CallTask] = "accept"
    /\ ivTask' = [ivTask EXCEPT ![CallTask] = "wait"]
    /\ UNCHANGED <<ivIn, ivConn>>

\* wg.Wait() returns when every handler task has returned
CallWaited ==
    /\ ivTask[CallTask] = "wait"
    /\ \A h \in Handlers : ivTask[h] \in {"none", "done"}
    /\ ivTask' = [ivTask EXCEPT ![CallTask] = "inactive"]
    /\ UNCHANGED <<ivIn, ivConn>>

\* handleLocalProxyConn returns, with an error or without
HandlerTaskEnds(h, failed) ==
    /\ ivTask[h] = "copy"
    /\ ivTask' = [ivTask EXCEPT ![h] = IF failed THEN "error" ELSE "closed"]
    /\ UNCHANGED <<ivIn, ivConn>>

\* the reader has read a message (the relay's SOCKS5 server logs when it
\* serves a stream, so a handler was started), a Read failed, or the stream
\* is at EOF
ReaderTaskReads(outcome) ==
    /\ ivTask[ReaderTask] = "read"
    /\ outcome = "message" => \E h \in Handlers : ivTask[h] # "none"
    /\ ivTask' = [ivTask EXCEPT ![ReaderTask] = outcome]
    /\ UNCHANGED <<ivIn, ivConn>>

\* <-sess.CloseChan() returns: proxyListener.Close() fails when the deferred
\* Close of startLocalProxyServer has closed the listener already
WatcherTaskCloses ==
    /\ ivTask[WatcherTask] = "armed"
    /\ ivTask' = [ivTask EXCEPT ![WatcherTask] =
                     IF ivTask[CallTask] \in {"relay disconnected", "done"}
                     THEN "close error" ELSE "done"]
    /\ UNCHANGED <<ivIn, ivConn>>

InvocationsNext ==
    \/ \E t \in Tasks : CallbackCalled(t)
    \/ \E t \in Tasks : CallbackReturns(t)
    \/ \E ok \in BOOLEAN : CallOpens(ok)
    \/ \E h \in Handlers : CallAccepts(h)
    \/ CallAcceptFails
    \/ CallWaited
    \/ \E h \in Handlers, failed \in BOOLEAN : HandlerTaskEnds(h, failed)
    \/ \E outcome \in {"message", "read error", "done"} : ReaderTaskReads(outcome)
    \/ WatcherTaskCloses

InvocationsStep == InvocationsNext /\ UNCHANGED <<lvars, pvars, rvars, tlsVars, ctlVars, cmdVars, keyVars, cfgVars, genVars, suVars, adVars, uiVars, cbVars>>

InvocationsSpecInit ==
    /\ TLSInit
    /\ CtlInit
    /\ CmdInit
    /\ KeyInit
    /\ CfgInit
    /\ GenInit
    /\ SetupInit
    /\ AddrInit
    /\ UIInit
    /\ CallbackInit
    /\ InvocationsRunInit
    /\ NetInit
    /\ dialLimit = 0
    /\ clients = 0

SpecInvocations == InvocationsSpecInit /\ [][InvocationsStep]_vars

----------------------------------------------------------------------------
(* Claims *)

\* the server's leaf carries the name the client expects
TLSNameMatches == tlsClient.ServerName \in tlsServer.Certificate.DNSNames

----------------------------------------------------------------------------
(* Scheduling: every task of the program that can take its next step takes  *)
(* it eventually, and a blocked call returns once what it waits for is       *)
(* closed. Nothing is assumed of the environment: a relay need not dial, a   *)
(* local client need not connect or finish, the user need not cancel, the    *)
(* relay's end need not close the connection, and no call has to fail while  *)
(* it can still succeed.                                                     *)

\* client.Open() returns
OpenControlReturns ==
    OpenControlStream \/ \E err \in OpenFailures : OpenControlStreamFails(err)

\* net.Listen returns
ListenReturns == ListenForward \/ ListenForwardFails

\* proxyListener.Accept() returns once the listener is closed
AcceptLocalUnblocks == AcceptLocalFails(ErrNetClosed)

\* sess.Open() returns
HandlerOpenReturns(h) ==
    HandlerOpens(h) \/ \E err \in {ErrSessionShutdown, ErrWriteTimeout} : HandlerOpenFails(h, err)

\* the read of the local connection returns once the connection is closed
CopyToStreamUnblocks(h) == hs[h].conn = "closed" /\ CopyToStreamEnds(h)

\* the read of the stream returns once the stream is closed
CopyFromStreamUnblocks(h) == hs[h].stream = "closed" /\ CopyFromStreamEnds(h)

Fairness ==
    /\ WF_vars(ListenerAccept)
    /\ WF_vars(ListenerAcceptClosed)
    /\ WF_vars(HandleRelayConnectionReturn)
    /\ WF_vars(LoopCheck)
    /\ WF_vars(CtxClosesListener)
    /\ WF_vars(CtxClosesRelayConn)
    /\ WF_vars(OpenControlReturns)
    /\ WF_vars(ListenReturns)
    /\ WF_vars(AcceptLocalUnblocks)
    /\ WF_vars(AcceptLoopReturns)
    /\ WF_vars(RunProxyReturns)
    /\ WF_vars(ProxySessionCloses)
    /\ WF_vars(WatcherSetsFlag)
    /\ WF_vars(WatcherFires)
    /\ \A h \in Handlers :
          /\ WF_vars(HandlerOpenReturns(h))
          /\ WF_vars(CopyToStreamUnblocks(h))
          /\ WF_vars(CopyFromStreamUnblocks(h))
          /\ WF_vars(HandlerReturns(h))
    /\ WF_vars(ReaderEnds)
    /\ WF_vars(RelaySessionCloses)
    /\ WF_vars(RelayReturns)

FairSpec == Spec /\ Fairness

FairCall == SpecCall /\ Fairness

----------------------------------------------------------------------------
(* the events of the current call *)

HasEvent(type) == \E i \in DOMAIN events : events[i].Type = type

\* the position of the first event of a type
FirstEvent(type) ==
    CHOOSE i \in DOMAIN events :
        /\ events[i].Type = type
        /\ \A j \in 1..(i - 1) : events[j].Type # type

EventsOf(type, h) == {i \in DOMAIN events : events[i].Type = type /\ events[i].conn = h}

\* RunProxyWithEventCallback has returned after a run in which nothing
\* failed: the handshake and the control stream succeeded, the forwarding
\* listener was bound, local connection 1 was served to its end, no handler
\* reported an error, and the accept loop ended because the session-close
\* watcher closed the forwarding listener
SuccessfulRun ==
    /\ ppc = "ret"
    /\ watcher = "done"
    /\ tls = "ok"
    /\ openErr = NoErr
    /\ perr = NoErr
    /\ fwd # "none"
    /\ hs[1].pc = "done"
    /\ \A h \in Handlers : hs[h].err = NoErr

\* C2: when RunProxyWithEventCallback has returned from a successful run
\* (relay connected, a local client was forwarded and finished, the relay
\* connection was closed), the callback has received no error event, nothing
\* is delivered after relay-disconnected, and the first occurrences of the
\* events are ordered relay-connected, forwarding-active, connection-opened,
\* connection-closed, forwarding-inactive, relay-disconnected.
C2_SuccessfulRunEventOrder ==
    SuccessfulRun =>
        /\ ~HasEvent(TypeError)
        /\ lateEvents = 0
        /\ HasEvent(TypeRelayConnected)
        /\ HasEvent(TypeSOCKS5Active)
        /\ HasEvent(TypeSOCKS5ConnectionOpened)
        /\ HasEvent(TypeSOCKS5ConnectionClosed)
        /\ HasEvent(TypeSOCKS5Inactive)
        /\ HasEvent(TypeRelayDisconnected)
        /\ FirstEvent(TypeRelayConnected) < FirstEvent(TypeSOCKS5Active)
        /\ FirstEvent(TypeSOCKS5Active) < FirstEvent(TypeSOCKS5ConnectionOpened)
        /\ FirstEvent(TypeSOCKS5ConnectionOpened) < FirstEvent(TypeSOCKS5ConnectionClosed)
        /\ FirstEvent(TypeSOCKS5ConnectionClosed) < FirstEvent(TypeSOCKS5Inactive)
        /\ FirstEvent(TypeSOCKS5Inactive) < FirstEvent(TypeRelayDisconnected)
        /\ events[Len(events)].Type = TypeRelayDisconnected
        /\ events[Len(events)].Data = <<>>

\* a successful run with exactly one local client: the six events, once each
C2_Witness ==
    /\ SuccessfulRun
    /\ hs[2].pc = "none"
    /\ Len(events) = 6
    /\ relayConn = "closed"

\* C3: on a session the first stream the proxy opens is the control stream
\* and no later one is; the relay takes the first stream it accepts as the
\* control stream and hands only later streams to the SOCKS5 server; so the
\* relay's control stream is the proxy's control stream and no forwarding
\* stream is served before the control stream is accepted.
C3_ControlStreamFirst ==
    /\ opened # <<>> =>
          /\ opened[1] = ControlStream
          /\ \A i \in 2..Len(opened) : opened[i] # ControlStream
    /\ \A h \in Handlers : hs[h].stream # "none" => ControlStream \in {opened[i] : i \in DOMAIN opened}
    /\ rctl # <<>> => rctl = <<ControlStream>>
    /\ ControlStream \notin rfwd
    /\ rfwd # {} => rctl # <<>>
    /\ rpc = "serve" => rctl # <<>>

\* the proxy opened the control stream and two forwarding streams before the
\* relay accepted any; the relay then accepted all three
C3_Witness ==
    /\ opened = <<ControlStream, 1, 2>>
    /\ rctl = <<ControlStream>>
    /\ rfwd = {1, 2}

\* the proxy and the relay are done with the relay connection: both calls
\* have returned, the session, the forwarding listener, every local
\* connection and its stream are closed and every task has ended
ConnectionTornDown ==
    /\ ppc = "ret"
    /\ rpc = "returned"
    /\ psess # "open"
    /\ rsess # "open"
    /\ fwd # "open"
    /\ watcher \notin {"armed", "flagged"}
    /\ reader # "run"
    /\ \A h \in Handlers :
          /\ hs[h].pc \in {"none", "done"}
          /\ hs[h].stream # "open"
          /\ hs[h].l2s # "run" /\ hs[h].s2l # "run"

\* C4: once the connection between relay and proxy is closed, by either
\* side, while RunProxyWithEventCallback runs, eventually both
\* RunProxyWithEventCallback and RunRelayWithEventCallback have returned and
\* the sessions, the forwarding listener and every forwarded connection's
\* tasks have ended.
C4_CloseTerminatesBothSides ==
    (relayConn = "closed" /\ CallActive) ~> ConnectionTornDown

\* the connection was closed with a local connection being copied, and
\* everything has terminated
C4_Witness ==
    /\ ConnectionTornDown
    /\ hs[1].pc = "done" /\ hs[1].l2s = "done" /\ hs[1].s2l = "done"
    /\ closedBecausePayloadDisconnected
    /\ ~ctxDone

\* the listener has shut down: runLocalSocksProxy has returned, the public
\* listener, the forwarding listener and the relay connection are closed and
\* no task of a forwarded connection is left
ListenerShutDown ==
    /\ lpc = "returned"
    /\ listener = "closed"
    /\ relayConn # "open"
    /\ fwd # "open"
    /\ ppc \in {"idle", "ret"}
    /\ \A h \in Handlers :
          /\ hs[h].pc \in {"none", "done"}
          /\ hs[h].l2s # "run" /\ hs[h].s2l # "run"

\* C5: once the listener's context is cancelled, eventually the public
\* listener, the forwarding listener and the current relay connection are
\* closed, every accept and copy has returned and runLocalSocksProxy has
\* returned.
C5_CancelShutsListenerDown == ctxDone ~> ListenerShutDown

\* without abort-on-disconnect: the context was cancelled while a local
\* connection was being forwarded, and the listener has shut down
C5_Witness ==
    /\ ListenerShutDown
    /\ ~abortOnDisconnect
    /\ hs[1].pc = "done" /\ hs[1].l2s = "done" /\ hs[1].s2l = "done"
    /\ closedBecausePayloadDisconnected

\* the last event the callback received is relay-disconnected
LastEventIsDisconnected ==
    /\ events # <<>>
    /\ events[Len(events)].Type = TypeRelayDisconnected

\* C6: handleRelayConnection returns to the loop only after
\* relay-disconnected was emitted (whatever ended the connection, an invalid
\* key included), and the loop then goes back to Accept on the same, still
\* open, public listener if and only if abort-on-disconnect is off and the
\* context is not cancelled; otherwise runLocalSocksProxy returns.
C6_ReacceptUnlessAbortOrCancel ==
    [][ /\ (lpc = "run" /\ lpc' # "run") =>
              (lpc' = "check" /\ LastEventIsDisconnected)
        /\ (lpc = "check" /\ lpc' # "check") =>
              IF ~abortOnDisconnect /\ ~ctxDone
              THEN lpc' = "accept" /\ listener = "open" /\ listener' = "open"
              ELSE lpc' = "returned" /\ listener' = "closed"
      ]_vars

\* a relay connection ended with relay-disconnected, and the listener has
\* accepted the next relay connection and serves it
C6_Witness ==
    /\ dials = 2
    /\ lpc = "run"
    /\ ppc = "accept"
    /\ ~abortOnDisconnect
    /\ ~ctxDone

\* RunProxyWithEventCallback has returned after client.Open() failed
OpenFailed == ppc = "ret" /\ openErr # NoErr

\* nothing was started for the connection: one attempt to open the control
\* stream, no forwarding listener, no forwarding-active, and the only events
\* are relay-connected and relay-disconnected
NothingStarted ==
    /\ opened = <<>>
    /\ reader = "none"
    /\ fwd = "none"
    /\ watcher = "none"
    /\ ~HasEvent(TypeSOCKS5Active)
    /\ ~HasEvent(TypeError)
    /\ Len(events) = 2
    /\ events[1].Type = TypeRelayConnected
    /\ events[2].Type = TypeRelayDisconnected

\* the statement as the specification has it: a failure of client.Open()
\* from a session shutdown or a certificate-verification error is reported as
\* "invalid connection key" and nothing is started; every other failure is
\* reported as the wrapped "open error notification connection" error
C7_OpenFailureReportedAsStated ==
    OpenFailed =>
        /\ NothingStarted
        /\ events[2].Data =
              IF openErr \in {ErrSessionShutdown, ErrCertificateVerification}
              THEN <<"invalid connection key">>
              ELSE <<"open error notification connection">> \o openErr.parts

\* C7: when client.Open() fails for the control stream, the open is not
\* retried and nothing is started for the connection; a session shutdown or
\* a certificate-verification error is returned and reported as "invalid
\* connection key"; every other failure is returned by handleRelayConnection
\* as the wrapped "open error notification connection" error, which is the
\* reason of relay-disconnected unless it wraps net.ErrClosed, in which case
\* the reason is empty.
C7_OpenFailureReporting ==
    OpenFailed =>
        /\ NothingStarted
        /\ IF openErr \in {ErrSessionShutdown, ErrCertificateVerification}
           THEN /\ perr = NewErr("invalid connection key")
                /\ events[2].Data = <<"invalid connection key">>
           ELSE /\ perr = Wrap("open error notification connection", openErr)
                /\ events[2].Data = IF openErr.closed THEN <<>> ELSE perr.parts

\* the relay skipped verification and presented a certificate of another
\* key: the listener's handshake failed with a certificate-verification
\* error, which was reported as "invalid connection key"
C7_Witness ==
    /\ OpenFailed
    /\ tls = "server_verification_error"
    /\ openErr = ErrCertificateVerification
    /\ events[2].Data = <<"invalid connection key">>

\* C8: every accepted local connection has exactly one connection-opened
\* event, emitted when it is accepted; it has one connection-closed event
\* once its handler has returned and none before, with the same peer data
\* and later than connection-opened, and when connection-closed is there
\* neither copy task of the connection is still running.
C8_OneOpenedOneClosed ==
    \A h \in Handlers :
        /\ Cardinality(EventsOf(TypeSOCKS5ConnectionOpened, h)) =
              IF hs[h].pc = "none" THEN 0 ELSE 1
        /\ Cardinality(EventsOf(TypeSOCKS5ConnectionClosed, h)) =
              IF hs[h].pc = "done" THEN 1 ELSE 0
        /\ \A i \in EventsOf(TypeSOCKS5ConnectionClosed, h) :
              /\ \A j \in EventsOf(TypeSOCKS5ConnectionOpened, h) :
                    j < i /\ events[j].Data = events[i].Data
              /\ hs[h].l2s # "run"
              /\ hs[h].s2l # "run"

\* connection 1 was copied in both directions and is closed, connection 2
\* is still being copied
C8_Witness ==
    /\ hs[1].pc = "done" /\ hs[1].l2s = "done" /\ hs[1].s2l = "done"
    /\ hs[2].pc = "copy"
    /\ Cardinality(EventsOf(TypeSOCKS5ConnectionClosed, 1)) = 1

\* the accept loop of startLocalProxyServer has ended
AcceptLoopEnded == HasEvent(TypeSOCKS5Active) /\ ppc \in {"wait", "disc", "ret"}

\* C9: a local connection whose forwarding failed (sess.Open() or a copy)
\* has exactly one error event, "handling socks5 connection: <error>", and a
\* connection that did not fail has none; the accept loop ends only because
\* the session closed or proxyListener.Accept() itself failed, and while it
\* runs with the listener open the next local connection can be accepted,
\* whatever happened to earlier ones.
C9_HandlerFailureDoesNotStopLoop ==
    /\ \A h \in Handlers :
          /\ Cardinality(EventsOf(TypeError, h)) =
                IF hs[h].pc = "done" /\ hs[h].err # NoErr THEN 1 ELSE 0
          /\ \A i \in EventsOf(TypeError, h) :
                events[i].Data = <<"handling socks5 connection">> \o hs[h].err.parts
    /\ AcceptLoopEnded =>
          \/ closedBecausePayloadDisconnected
          \/ perr = Wrap("proxy", Wrap("accept socks5 connection", ErrAccept))
    /\ (HasEvent(TypeSOCKS5Active) /\ psess = "open" /\ ~AcceptLoopEnded) =>
          /\ ppc = "accept"
          /\ fwd = "open"
          /\ \A h \in 1..clients :
                (hs[h].pc = "none" /\ \A g \in 1..(h - 1) : hs[g].pc # "none")
                    => ENABLED AcceptLocal(h)

\* the forwarding of connection 1 failed and was reported; connection 2 was
\* accepted afterwards and is being forwarded
C9_Witness ==
    /\ hs[1].pc = "done"
    /\ hs[1].err # NoErr
    /\ hs[2].pc = "copy"
    /\ psess = "open"
    /\ ppc = "accept"
    /\ \E i \in EventsOf(TypeError, 1), j \in EventsOf(TypeSOCKS5ConnectionOpened, 2) : i < j

\* C10: a local connection whose forwarding failed, the failure of
\* sess.Open() included, is closed when its handler has returned
\* (connection-closed emitted).
C10_FailedConnectionClosed ==
    \A h \in Handlers :
        (hs[h].pc = "done" /\ hs[h].err # NoErr) => hs[h].conn = "closed"

\* one copy task of local connection h has returned
OneCopyDone(h) == hs[h].l2s = "done" \/ hs[h].s2l = "done"

AcceptError == Wrap("proxy", Wrap("accept socks5 connection", ErrAccept))

\* C12: the forwarding listener is closed under the running accept loop
\* only by the session-close watcher, after the session closed and the
\* watcher recorded it; the Accept failure that follows makes
\* startLocalProxyServer return nil, and a run that ends this way has an
\* empty relay-disconnected reason and no error event from the teardown. An
\* Accept failure while the session is open finds nothing recorded and is
\* returned as "proxy: accept socks5 connection: <error>".
C12_SessionCloseIsCleanTeardown ==
    /\ [](/\ closedBecausePayloadDisconnected => psess = "closed"
          /\ (fwd = "closed" /\ ppc = "accept") =>
                (watcher = "done" /\ closedBecausePayloadDisconnected)
          /\ (AcceptLoopEnded /\ watcher = "done" /\ perr = NoErr) =>
                /\ EventsOf(TypeError, 0) = {}
                /\ ppc = "ret" =>
                      (LastEventIsDisconnected /\ events[Len(events)].Data = <<>>)
          /\ (AcceptLoopEnded /\ perr # NoErr) => perr = AcceptError
          /\ (ppc = "ret" /\ perr = AcceptError) =>
                (LastEventIsDisconnected /\ events[Len(events)].Data = AcceptError.parts))
    /\ [][(ppc = "accept" /\ ppc' = "wait") =>
            /\ fwd = "closed" => perr' = NoErr
            /\ psess = "open" => perr' = AcceptError
            /\ perr' = IF closedBecausePayloadDisconnected THEN NoErr ELSE AcceptError
         ]_vars

\* the session closed with no local connection, the watcher closed the
\* forwarding listener and the call returned with an empty reason
C12_Witness ==
    /\ ppc = "ret"
    /\ HasEvent(TypeSOCKS5Active)
    /\ watcher = "done"
    /\ perr = NoErr
    /\ hs[1].pc = "none"
    /\ events[Len(events)].Data = <<>>

\* the frames the control stream accepted, in write order
WrittenFrames == SelectSeq(ctlFrames, LAMBDA f : f # <<>>)

\* the message text of a frame
Payload(f) == SubSeq(f, 5, Len(f))

\* the events the reader emitted for messages
MessageEvents == SelectSeq(ctlEvents, LAMBDA e : e.Data.kind = "message")

\* C13: for every sequence of frames the relay wrote, however the stream
\* hands the bytes to the reads, the reader's message events are, in write
\* order, the frames' message texts, one event per frame: never more events
\* than frames, the i-th event carries exactly the i-th frame's text, and
\* once every written byte is consumed and the reader waits for the next
\* length there are as many events as frames.
C13_OneEventPerFrame ==
    /\ Len(MessageEvents) <= Len(WrittenFrames)
    /\ \A i \in 1..Len(MessageEvents) :
          i <= Len(WrittenFrames)
             => BufferIs(MessageEvents[i].Data.buf, Payload(WrittenFrames[i]))
    /\ (ctlEnd = "open" /\ ctlWire = <<>> /\ ctlBuf = <<>> /\ rdPc = "len")
          => Len(MessageEvents) = Len(WrittenFrames)

\* the events the reader emitted for failed reads
ReadErrorEvents == SelectSeq(ctlEvents, LAMBDA e : e.Data.kind # "message")

\* C14: the reader emits nothing for a failed read while it runs; when it has
\* terminated on end-of-stream it has emitted no event for that, and when it
\* has terminated on any other read error it has emitted exactly one error
\* event, as its last event.
C14_SilentOnEndOfStream ==
    /\ rdPc # "done" => ReadErrorEvents = <<>>
    /\ (rdPc = "done" /\ ctlEnd = "eof") => ReadErrorEvents = <<>>
    /\ (rdPc = "done" /\ ctlEnd = "reset")
          => /\ Len(ReadErrorEvents) = 1
             /\ ctlEvents[Len(ctlEvents)] = ReadErrorEvents[1]

\* text is the line without the newlines around it and without one
\* "[ERR] socks: " at the start of what is left
IsStripped(line, text) ==
    \E i \in 0..Len(line) : \E j \in 0..(Len(line) - i) :
        LET core == SubSeq(line, i + 1, Len(line) - j) IN
        /\ \A k \in 1..i : line[k] = NL
        /\ \A k \in (Len(line) - j + 1)..Len(line) : line[k] = NL
        /\ core # <<>> => (core[1] # NL /\ core[Len(core)] # NL)
        /\ IF HasPrefix(core, ErrPrefix) THEN core = ErrPrefix \o text
                                         ELSE core = text

\* a frame: four bytes, the big-endian length of the text, then the text
IsFrameOf(f, text) ==
    /\ Len(f) = 4 + Len(text)
    /\ \A k \in 1..4 : f[k] \in 0..255
    /\ f[1] * 16777216 + f[2] * 65536 + f[3] * 256 + f[4] = Len(text)
    /\ SubSeq(f, 5, Len(f)) = text

\* C15: for every log line handed to the relay's logger there is exactly one
\* local error event, carrying the line without the surrounding newlines and
\* without the "[ERR] socks: " prefix, and exactly one write to the control
\* stream: one frame whose 4-byte big-endian length is the byte length of
\* its payload and whose payload is that same text (a write on a stream that
\* has ended writes nothing). Every write of a line on the open stream puts
\* exactly that one frame on the stream.
C15_OneFramePerLogLine ==
    /\ [](/\ Len(ctlRelayEvents) = Len(ctlLines)
          /\ Len(ctlFrames) = Len(ctlLines)
          /\ \A i \in 1..Len(ctlLines) :
                /\ ctlRelayEvents[i].Type = TypeError
                /\ ctlRelayEvents[i].Data.kind = "socks"
                /\ ctlRelayEvents[i].Data.buf.pad = 0
                /\ IsStripped(ctlLines[i], ctlRelayEvents[i].Data.buf.bytes)
                /\ ctlFrames[i] # <<>>
                      => IsFrameOf(ctlFrames[i], ctlRelayEvents[i].Data.buf.bytes))
    /\ [][(ctlLines' # ctlLines /\ ctlEnd = "open")
            => /\ ctlFrames'[Len(ctlFrames')] # <<>>
               /\ ctlWire' = ctlWire \o ctlFrames'[Len(ctlFrames')]]_vars

\* a line with the prefix twice and a line with newlines on both sides were
\* written to the open stream
C15_Witness ==
    /\ Len(ctlLines) = 2
    /\ ctlLines[1] = ErrPrefix \o ErrPrefix \o <<97>> \o <<NL>>
    /\ ctlLines[2] = <<NL>> \o ErrPrefix \o <<98>> \o <<NL, NL>>
    /\ ctlFrames[1] = <<0, 0, 0, 14>> \o ErrPrefix \o <<97>>
    /\ ctlFrames[2] = <<0, 0, 0, 1, 98>>
    /\ ctlWire = ctlFrames[1] \o ctlFrames[2]

\* the TLS configuration can be built from the command's key and flag
ConfigBuilt == clientTLSConfigErr(cmdKey, cmdInsecure) = NoErr

\* connectBackAndRelay calls that have returned
EndedAttempts == IF cmdPc \in {"accept", "serve", "loop"} THEN cmdDials - 1 ELSE cmdDials

\* one plain sleep of the configured interval after every attempt that ended
SleepsAreTheInterval ==
    /\ \A i \in 1..Len(cmdSleeps) : cmdSleeps[i] = reconnectAfter
    /\ reconnectAfter > 0 => Len(cmdSleeps) = EndedAttempts
    /\ reconnectAfter = 0 => cmdSleeps = <<>>
    /\ cmdPc = "sleep" => (cmdSleeps # <<>> /\ cmdConn # "open" /\ cmdSess # "open")

\* C16 as stated: with reconnect interval 0 runRemoteProxyRelay makes exactly
\* one dial attempt and returns its outcome; with an interval above 0 it
\* never returns, and after every failed dial or ended session it sleeps for
\* exactly the configured interval before the next dial.
C16_OneDialOrRetryForever ==
    /\ reconnectAfter = 0 => cmdDials <= 1
    /\ (reconnectAfter = 0 /\ cmdPc = "returned") => (cmdDials = 1 /\ cmdRet = cmdErr)
    /\ reconnectAfter > 0 => cmdPc # "returned"
    /\ SleepsAreTheInterval

\* C16 (amended): when the TLS configuration cannot be built from the key
\* (no key without --insecure, or a key that does not parse),
\* runRemoteProxyRelay returns 'build TLS config: ...' without dialling,
\* whatever the reconnect interval. Otherwise, with reconnect interval 0 it
\* makes exactly one dial attempt and returns its outcome (the dial's error
\* or what the relay session returned), and with an interval above 0 it
\* never returns and sleeps for exactly the configured interval, the same
\* every time, after every failed dial and every ended session before it
\* dials again.
C16_DialLoop ==
    /\ ~ConfigBuilt
          => /\ cmdDials = 0
             /\ cmdSleeps = <<>>
             /\ cmdPc \in {"config", "returned"}
             /\ cmdPc = "returned"
                   => cmdRet = Wrap("build TLS config", clientTLSConfigErr(cmdKey, cmdInsecure))
    /\ (ConfigBuilt /\ reconnectAfter = 0) => cmdDials <= 1
    /\ (ConfigBuilt /\ reconnectAfter = 0 /\ cmdPc = "returned")
          => (cmdDials = 1 /\ cmdRet = cmdErr /\ cmdErr # NoErr)
    /\ (ConfigBuilt /\ reconnectAfter > 0) => cmdPc # "returned"
    /\ SleepsAreTheInterval

\* in reconnect mode two attempts, at least one of them a relay session that
\* ended, were each followed by a sleep of the interval, and the third dial
\* has been made
C16_Witness ==
    /\ reconnectAfter = 3
    /\ cmdDials = 3
    /\ cmdSleeps = <<3, 3>>
    /\ cmdPc = "serve"
    /\ cmdWatchers > 0

\* RunRelayWithEventCallback is running
RelayRuns == cmdPc \in {"accept", "serve"}

\* C17: RunRelayWithEventCallback returns only when the multiplexed session
\* has closed (which is also how the SOCKS5 server fails: its Accept on the
\* session returns an error); when it has returned, the session, the control
\* stream and the dialled connection are closed and the error says which
\* Accept failed; and in single-shot mode runRemoteProxyRelay returns that
\* error to its caller.
C17_RelayReturnsAfterSessionClosed ==
    /\ [](/\ (~RelayRuns /\ cmdDials > 0) => (cmdSess # "open" /\ cmdCtl # "open" /\ cmdConn # "open")
          /\ (cmdPc = "returned" /\ cmdDials > 0)
                => (reconnectAfter = 0 /\ cmdRet = cmdErr /\ cmdErr # NoErr))
    /\ [][(RelayRuns /\ ~RelayRuns')
            => /\ cmdSess = "closed"
               /\ cmdSess' = "closed"
               /\ cmdCtl' = IF cmdPc = "serve" THEN "closed" ELSE "none"
               /\ cmdErr' = IF cmdPc = "serve"
                            THEN Wrap("socks5 server", ErrSessionShutdown)
                            ELSE Wrap("accept error notification connection",
                                      ErrSessionShutdown)]_vars

\* single-shot mode: the session ran with its control stream, closed, and
\* the command returned the SOCKS5 server's error
C17_Witness ==
    /\ reconnectAfter = 0
    /\ cmdPc = "returned"
    /\ cmdDials = 1
    /\ cmdCtl = "closed"
    /\ cmdSess = "closed"
    /\ cmdRet = Wrap("socks5 server", ErrSessionShutdown)

\* C18: two derivations of the CA from the same key, made at different
\* times, yield equal certificates, and the derivations from two different
\* keys yield certificates that are not equal.
C18_SameKeySameCA ==
    keyPc = "done" =>
        /\ caA1 = caA2
        /\ keyA = keyB => caB = caA1
        /\ (keyA # keyB /\ caA1.err = NoErr /\ caB.err = NoErr) => caB # caA1

\* a key gave the same CA twice, and another key gave another CA
C18_Witness ==
    /\ keyPc = "done"
    /\ keyA # keyB
    /\ caA1.err = NoErr
    /\ caB.err = NoErr
    /\ caA2 = caA1
    /\ caB.CommonName # caA1.CommonName
    /\ keyNow = 4

\* C19: for every valid connection key, the serial number of the CA derived
\* from it, base64-encoded without padding, is the key's public-key ID
\* (key.PublicKey()).
C19_CASerialIsPublicKey ==
    (keyPc = "done" /\ caA1.err = NoErr)
        => EncodeToString(BigIntBytes(caA1.SerialNumber)) = PublicKeyString(keyA)

\* C20: for every valid connection key k (32 bytes, not all zero),
\* ParseConnectionKey(k.String()) succeeds and returns a key equal to k; the
\* string has 43 characters of the alphabet.
C20_ParseStringRoundTrip ==
    /\ (keyPc \notin {"idle", "key"} /\ checkKeyBytesErr(keyA) = NoErr)
          => /\ Len(keyStr) = 43
             /\ \A i \in 1..Len(keyStr) : keyStr[i] \in 0..63
    /\ (keyPc \notin {"idle", "key", "string"} /\ checkKeyBytesErr(keyA) = NoErr)
          => /\ keyParsed.err = NoErr
             /\ keyParsed.key = keyA

\* a key whose last byte uses the bits of the short final group was written
\* and parsed back
C20_Witness ==
    /\ keyPc = "parsed"
    /\ keyA = KeyOf(165, 255, 165)
    /\ keyParsed.err = NoErr
    /\ keyParsed.key = keyA
    /\ keyStr[43] = 20

\* the configuration experiment has applied every function
CfgDone == cfgPc = "done"

\* C21: for the all-zero connection key, ParseConnectionKey on its text, CA
\* generation, ServerTLSConfig and ClientTLSConfig each return an error, and
\* with it the zero key, no certificate and a nil configuration
C21_ZeroKeyRejectedEverywhere ==
    (CfgDone /\ cfgKey = ZeroKey)
        => /\ cfgText = String(ZeroKey)
                => (cfgParsed.err # NoErr /\ cfgParsed.key = ZeroKey)
           /\ cfgCA.err # NoErr /\ DOMAIN cfgCA = {"err"}
           /\ cfgServer.err # NoErr /\ cfgServer.cfg = <<>>
           /\ cfgClient.err # NoErr /\ cfgClient.cfg = <<>>

C21_Witness == CfgDone /\ cfgKey = ZeroKey /\ cfgText = String(ZeroKey)

\* text consists of characters of the base64 alphabet and has a length that
\* unpadded base64 produces
IsRawBase64(text) ==
    /\ \A i \in 1..Len(text) : text[i] \in 0..63
    /\ Len(text) % 4 # 1

\* the number of bytes a text of unpadded base64 stands for
DecodedLen(text) == (Len(text) * 6) \div 8

\* C22: ParseConnectionKey returns an error for every text that is empty, is
\* not unpadded base64 or stands for a number of bytes other than 32; it
\* returns a key exactly when the text decodes to 32 bytes that are not all
\* zero, and the key is these bytes
C22_ParseRejectsBadTexts ==
    CfgDone
        => /\ (cfgText = EmptyText \/ ~IsRawBase64(cfgText) \/ DecodedLen(cfgText) # SeedSize)
                => (cfgParsed.err # NoErr /\ cfgParsed.key = ZeroKey)
           /\ cfgParsed.err = NoErr
                <=> /\ cfgText # EmptyText
                    /\ IsRawBase64(cfgText)
                    /\ DecodedLen(cfgText) = SeedSize
                    /\ ~isZeroBytes(DecodeString(cfgText).bytes)
           /\ cfgParsed.err = NoErr
                => /\ Len(cfgParsed.key) = SeedSize
                   /\ cfgParsed.key = DecodeString(cfgText).bytes
                   /\ cfgParsed.key # ZeroKey

C22_Witness ==
    /\ CfgDone
    /\ IsRawBase64(cfgText)
    /\ DecodedLen(cfgText) = SeedSize + 1
    /\ cfgParsed.err # NoErr

\* C23: GenerateConnectionKey draws at most 10 times, returns a nil error
\* only with a key that is not all zero, and after 10 all-zero draws returns
\* the error "could not generate a valid non-zero connection key in 10
\* attempts"
C23_GenerateBoundedOrExhausted ==
    /\ genDraws <= maxAttempts
    /\ (genPc = "returned" /\ genErr = NoErr) => ~isZeroBytes(genKey)
    /\ (genPc = "returned" /\ genI = maxAttempts) => genErr = ErrExhausted

\* cert is a certificate for the given use that the CA of key has signed
SignedByCAOf(cert, key, usage) ==
    /\ cert.signedBy = CACertificate(key, 0).signedBy
    /\ cert.issuer = PublicKeyString(key)
    /\ cert.ExtKeyUsage = {usage}

\* C24: the relay's TLS configuration by (insecure, key given): no key and
\* not insecure is the error "connection key is required"; no key and
\* insecure presents no certificate and verifies nothing; a key and insecure
\* presents a client certificate of the key's CA and does not verify the
\* server; a key and not insecure presents the certificate and verifies the
\* server against the key's CA and public-key ID
C24_RelayTLSConfigByFlags ==
    CfgDone
        => /\ (~cfgInsecure /\ cfgText = EmptyText)
                => /\ cfgRelay.err = NewErr("connection key is required (--key)")
                   /\ cfgRelay.cfg = <<>>
           /\ (cfgInsecure /\ cfgText = EmptyText)
                => /\ cfgRelay.err = NoErr
                   /\ cfgRelay.cfg[1].Certificates = <<>>
                   /\ cfgRelay.cfg[1].InsecureSkipVerify
           /\ (cfgText # EmptyText /\ cfgParsed.err # NoErr)
                => (cfgRelay.err # NoErr /\ cfgRelay.cfg = <<>>)
           /\ (cfgText # EmptyText /\ cfgParsed.err = NoErr)
                => /\ cfgRelay.err = NoErr
                   /\ Len(cfgRelay.cfg[1].Certificates) = 1
                   /\ SignedByCAOf(cfgRelay.cfg[1].Certificates[1], cfgParsed.key, "ClientAuth")
                   /\ cfgRelay.cfg[1].InsecureSkipVerify = cfgInsecure
                   /\ ~cfgInsecure
                        => /\ cfgRelay.cfg[1].RootCAs = {CACertificate(cfgParsed.key, 0)}
                           /\ cfgRelay.cfg[1].ServerName = PublicKeyString(cfgParsed.key)

C24_Witness ==
    CfgDone /\ cfgInsecure /\ cfgParsed.err = NoErr /\ cfgRelay.err = NoErr

\* C25: the listener's TLS configuration requires and verifies a client
\* certificate of the key's CA unless --insecure is set, and then has
\* ClientAuth = NoClientCert and no client CA pool; without a key text the
\* key is the one GenerateConnectionKey returned, with a key text it is the
\* parsed key
C25_ListenerTLSConfig ==
    CfgDone
        => /\ cfgText # EmptyText
                => /\ cfgListen.err = NoErr <=> cfgParsed.err = NoErr
                   /\ cfgListen.err = NoErr => cfgListen.key = cfgParsed.key
           /\ cfgText = EmptyText
                => /\ cfgListen.err = NoErr <=> cfgGenerated.err = NoErr
                   /\ cfgListen.err = NoErr => cfgListen.key = cfgGenerated.key
           /\ cfgListen.err = NoErr
                => /\ Len(cfgListen.cfg[1].Certificates) = 1
                   /\ SignedByCAOf(cfgListen.cfg[1].Certificates[1], cfgListen.key, "ServerAuth")
                   /\ ~cfgInsecure
                        => /\ cfgListen.cfg[1].ClientAuth = "RequireAndVerifyClientCert"
                           /\ cfgListen.cfg[1].ClientCAs = {CACertificate(cfgListen.key, 0)}
                   /\ cfgInsecure
                        => /\ cfgListen.cfg[1].ClientAuth = "NoClientCert"
                           /\ cfgListen.cfg[1].ClientCAs = {}

C25_Witness ==
    CfgDone /\ cfgInsecure /\ cfgText = EmptyText /\ cfgListen.err = NoErr

\* C29: the client certificate of ClientTLSConfigForClientName(key,
\* clientName) has the DNS name clientName, and ServerName is the key's
\* public-key ID
C29_ClientCertificateNamesClient ==
    (CfgDone /\ cfgNamed.err = NoErr)
        => /\ cfgNamed.cfg[1].Certificates[1].DNSNames = {cfgName}
           /\ cfgNamed.cfg[1].ServerName = PublicKeyString(cfgKey)

\* the key text is malformed, of the wrong length or of the all-zero key
BadKeyText == suText # EmptyText /\ ParseConnectionKey(suText).err # NoErr

\* C26: with a key text that is malformed, of the wrong length or all-zero
\* (and on the relay without --insecure also with an empty one) the run
\* function of the listener and that of the relay return an error, and until
\* then no socket is bound, no connection dialed or accepted and no event
\* emitted
C26_KeyErrorsBeforeNetwork ==
    /\ BadKeyText
         => /\ lcPc \in {"config", "returned"}
            /\ lcPc = "returned" => lcRet # NoErr
            /\ lcListener = "none" /\ lcAccepts = 0 /\ lcUI = <<>>
    /\ (BadKeyText \/ (suText = EmptyText /\ ~suInsecure))
         => /\ rlPc \in {"config", "returned"}
            /\ rlPc = "returned" => rlRet # NoErr
            /\ rlDials = 0

C26_Witness ==
    /\ BadKeyText /\ suText = String(ZeroKey) /\ suInsecure
    /\ lcPc = "returned" /\ rlPc = "returned"

\* an error counts as reported when a message given to the UI carries it or
\* the caller of runLocalSocksProxy receives it
Reported(err) ==
    \/ \E i \in DOMAIN lcUI : lcUI[i].Data = err.parts
    \/ lcRet = err

\* C27: every error of accepting or handling a relay connection on the
\* listener's side has been given to the event callback or is returned by
\* runLocalSocksProxy (the errors of a closed connection or listener, which
\* the shutdown itself causes, are not counted)
C27_ListenerErrorsReported ==
    lcPc = "returned" => \A err \in lcOccurred : ~err.closed => Reported(err)

\* the forwarding address is in use
ForwardBindFailed ==
    Wrap("proxy", Wrap("listen for relay connection", ErrAddrInUse)) \in lcOccurred

\* C28: runLocalSocksProxy returns a non-nil error when the connection key
\* is invalid, when the public listen address cannot be bound and when the
\* forwarding address cannot be bound because it is in use
C28_SetupFailureReturnsError ==
    lcPc = "returned"
        => /\ BadKeyText => lcRet # NoErr
           /\ lcListener = "none" => lcRet # NoErr
           /\ ForwardBindFailed => lcRet # NoErr

\* the forwarding-active and forwarding-inactive events of the current relay
\* connection, in their order
RECURSIVE ForwardingEvents(_)
ForwardingEvents(evs) ==
    IF evs = <<>> THEN <<>>
    ELSE IF Head(evs).Type \in {TypeSOCKS5Active, TypeSOCKS5Inactive}
    THEN <<Head(evs).Type>> \o ForwardingEvents(Tail(evs))
    ELSE ForwardingEvents(Tail(evs))

\* the listener is between two relay connections, or has returned
BetweenConnections == lpc \in {"accept", "check", "returned"}

\* C30: the listener serves one relay connection at a time: while it is
\* between two connections no relay connection and no forwarding listener
\* is open and no call is active; the forwarding listener is bound only
\* while a connection is served, at most once for it, and a relay connection
\* is accepted only when the forwarding listener is not bound; so each
\* connection's forwarding events are forwarding-active, then
\* forwarding-inactive, both or none by the time it is over
C30_OneConnectionOneForwardingListener ==
    /\ [](/\ BetweenConnections
             => /\ relayConn # "open" /\ fwd # "open" /\ ~CallActive
                /\ ForwardingEvents(events) \in {<<>>, <<TypeSOCKS5Active, TypeSOCKS5Inactive>>}
          /\ ForwardingEvents(events) \in {<<>>, <<TypeSOCKS5Active>>,
                                           <<TypeSOCKS5Active, TypeSOCKS5Inactive>>}
          /\ fwd = "open" => ForwardingEvents(events) = <<TypeSOCKS5Active>>)
    /\ [][ /\ (fwd # "open" /\ fwd' = "open") => (fwd = "none" /\ lpc = "run")
           /\ (lpc = "accept" /\ lpc' = "run") => (fwd # "open" /\ fwd' = "none")
         ]_vars

\* the second relay connection has its forwarding listener, and the first
\* had one too: its session-close watcher is still there
C30_Witness ==
    /\ dials = 2
    /\ lpc = "run"
    /\ fwd = "open"
    /\ staleWatchers = 1

\* a host name or an IPv4 address: letters and digits
IsHostName(a) == a # <<>> /\ \A i \in 1..Len(a) : a[i] \in {"a", "1"}

\* a bare IPv6 address such as ::1: no brackets, two colons or more
IsBareIPv6(a) ==
    /\ \A i \in 1..Len(a) : a[i] \in {"a", "1", ":"}
    /\ Cardinality({i \in 1..Len(a) : a[i] = ":"}) >= 2

\* host:port with a host name or an IPv4 address
IsHostPort(a) ==
    \E i \in 2..(Len(a) - 1) :
        /\ a[i] = ":"
        /\ IsHostName(SubSeq(a, 1, i - 1))
        /\ \A j \in (i + 1)..Len(a) : a[j] = "1"

\* C38: for a host name, an IPv4 address, a bare IPv6 address and a
\* host:port, withDefaultPort applied twice gives what it gives applied once;
\* an address with a port is returned unchanged, one without gets ":p"
\* appended once, and the result splits into host and port
C38_WithDefaultPortIdempotent ==
    (adPc = "done" /\ (IsHostName(adAddr) \/ IsBareIPv6(adAddr) \/ IsHostPort(adAddr)))
        => /\ adTwice = adOnce
           /\ IsHostPort(adAddr) => adOnce = adAddr
           /\ ~IsHostPort(adAddr) => adOnce = adAddr \o <<":">> \o Itoa(adPort)
           /\ SplitHostPortErr(adOnce) = ""

\* Update has handled the event uiMsg' in this step
Handled(type) == uiNow' = uiNow + 1 /\ uiMsg'.Type = type

\* the texts of the logged errors
RECURSIVE ErrorTexts(_)
ErrorTexts(errs) ==
    IF errs = <<>> THEN <<>> ELSE <<Head(errs).Error>> \o ErrorTexts(Tail(errs))

\* C39: Update logs one error with the event's Data for an error event
\* with Data, and 'unknown error' only for one without; on relay-disconnected
\* the current connection goes to the previous connections with the event's
\* Data as its error, and there is no current connection any more
C39_UpdateLogsErrorText ==
    [][/\ (Handled(TypeError) /\ uiMsg'.Data # <<>>)
            => ErrorTexts(uiModel'.errors) = Append(ErrorTexts(uiModel.errors), uiMsg'.Data)
       /\ (Handled(TypeError) /\ uiMsg'.Data = <<>>)
            => ErrorTexts(uiModel'.errors) = Append(ErrorTexts(uiModel.errors), <<"unknown error">>)
       /\ (Handled(TypeRelayDisconnected) /\ uiModel.connection # NoConnection)
            => /\ uiModel'.connection = NoConnection
               /\ Len(uiModel'.previousConnections) = Len(uiModel.previousConnections) + 1
               /\ LET moved == uiModel'.previousConnections[Len(uiModel'.previousConnections)] IN
                     /\ moved.IP = uiModel.connection.IP
                     /\ moved.Error = uiMsg'.Data]_vars

\* the relay-disconnected part of Update on its own
UpdateMovesConnection ==
    [][(Handled(TypeRelayDisconnected) /\ uiModel.connection # NoConnection)
            => /\ uiModel'.connection = NoConnection
               /\ uiModel'.previousConnections =
                     Append(uiModel.previousConnections,
                            [uiModel.connection EXCEPT !.End = uiNow', !.Error = uiMsg'.Data])]_vars

\* the positions of the events of a type, whoever emitted them
AllEventsOf(type) == {i \in DOMAIN events : events[i].Type = type}

\* C33: a call of RunProxyWithEventCallback emits relay-connected once and
\* first; it emits relay-disconnected once when it returns and not before,
\* whatever the return path; the Data of relay-disconnected is empty when
\* handleRelayConnection's error is nil or a closed-connection error, and the
\* error's text otherwise.
C33_ConnectedFirstDisconnectedOnce ==
    /\ ppc # "idle" =>
          /\ events # <<>>
          /\ events[1].Type = TypeRelayConnected
          /\ Cardinality(AllEventsOf(TypeRelayConnected)) = 1
    /\ ppc # "ret" => AllEventsOf(TypeRelayDisconnected) = {}
    /\ ppc = "ret" =>
          /\ AllEventsOf(TypeRelayDisconnected) = {Len(events)}
          /\ events[Len(events)].Data =
                IF perr = NoErr \/ perr.closed THEN <<>> ELSE perr.parts

\* the context was cancelled, the forwarding listener's Accept failed with a
\* closed-connection error, and relay-disconnected has no reason
C33_Witness ==
    /\ ppc = "ret"
    /\ ctxDone
    /\ perr # NoErr
    /\ perr.closed
    /\ events[Len(events)].Data = <<>>

\* a return with an error that is reported
C33_WitnessError ==
    /\ ppc = "ret"
    /\ perr # NoErr
    /\ ~perr.closed
    /\ events[Len(events)].Data = perr.parts

\* C35: forwarding-active is among the events exactly when the forwarding
\* listener was bound; it is emitted at most once; forwarding-inactive is
\* emitted only after it, at most once, and after the connection-closed
\* event of every local connection the listener accepted; when
\* RunProxyWithEventCallback has returned from a call that bound the
\* listener, there is exactly one forwarding-inactive, before
\* relay-disconnected.
C35_ActiveIffBoundThenOneInactive ==
    /\ ppc # "idle" =>
          /\ HasEvent(TypeSOCKS5Active) <=> fwd # "none"
          /\ Cardinality(AllEventsOf(TypeSOCKS5Active)) <= 1
          /\ Cardinality(AllEventsOf(TypeSOCKS5Inactive)) <= 1
    /\ HasEvent(TypeSOCKS5Inactive) =>
          /\ HasEvent(TypeSOCKS5Active)
          /\ FirstEvent(TypeSOCKS5Active) < FirstEvent(TypeSOCKS5Inactive)
          /\ \A h \in Handlers : hs[h].pc # "none" =>
                /\ EventsOf(TypeSOCKS5ConnectionClosed, h) # {}
                /\ \A i \in EventsOf(TypeSOCKS5ConnectionClosed, h) :
                      i < FirstEvent(TypeSOCKS5Inactive)
          /\ \A i \in AllEventsOf(TypeSOCKS5ConnectionOpened) \cup AllEventsOf(TypeSOCKS5ConnectionClosed) :
                i < FirstEvent(TypeSOCKS5Inactive)
    /\ (ppc = "ret" /\ fwd # "none") =>
          /\ Cardinality(AllEventsOf(TypeSOCKS5Inactive)) = 1
          /\ FirstEvent(TypeSOCKS5Inactive) < FirstEvent(TypeRelayDisconnected)

\* the call has returned after the listener accepted two local connections:
\* both connection-closed events, then forwarding-inactive, then
\* relay-disconnected
C35_Witness ==
    /\ ppc = "ret"
    /\ fwd = "closed"
    /\ hs[1].pc = "done"
    /\ hs[2].pc = "done"
    /\ Cardinality(AllEventsOf(TypeSOCKS5ConnectionClosed)) = 2
    /\ HasEvent(TypeSOCKS5Inactive)

\* the bind failed: neither forwarding event
C35_WitnessUnbound ==
    /\ ppc = "ret"
    /\ fwd = "none"
    /\ reader # "none"
    /\ ~HasEvent(TypeSOCKS5Active)
    /\ ~HasEvent(TypeSOCKS5Inactive)

\* C34: nothing is delivered to the callback after relay-disconnected: the
\* control-channel reader, the session-close watcher and the handlers have
\* emitted their last event before RunProxyWithEventCallback emits
\* relay-disconnected.
C34_NoEventAfterDisconnected == lateEvents = 0

\* C31: with a nil callback no event is delivered: not by the task running
\* RunProxyWithEventCallback, not by the handlers, the control-channel
\* reader and the session-close watcher, not after the call has returned,
\* and not by the relay's logger, which still writes the frame of every line.
C31_NilCallbackNeverInvoked ==
    callback = "nil" =>
        /\ events = <<>>
        /\ lateEvents = 0
        /\ ctlRelayEvents = <<>>
        /\ ctlEvents = <<>>
        /\ Len(ctlFrames) = Len(ctlLines)
        /\ \A i \in DOMAIN ctlLines : ctlFrames[i] = remoteLoggerFrame(ctlLines[i])

\* a call without a callback has returned after it served a local
\* connection; the reader failed, the watcher's Close failed after the
\* return, and the relay logged a line
C31_Witness ==
    /\ callback = "nil"
    /\ ppc = "ret"
    /\ hs[1].pc = "done"
    /\ reader = "failed"
    /\ watcher = "failed"
    /\ ctlLines # <<>>

\* C32: when the control-channel reader returns because a read failed, the
\* session, the relay connection, the forwarding listener, the handlers and
\* their streams are as they were; and while the reader has failed and the
\* session is open, a bound forwarding listener whose accept loop runs stays
\* open with its watcher waiting.
C32_ReaderFailureLeavesTunnel ==
    /\ [][(reader = "run" /\ reader' = "failed") =>
              /\ psess' = psess
              /\ relayConn' = relayConn
              /\ fwd' = fwd
              /\ watcher' = watcher
              /\ hs' = hs
              /\ ppc' = ppc
              /\ perr' = perr]_vars
    /\ []((reader = "failed" /\ psess = "open" /\ ppc = "accept")
              => (fwd = "open" /\ watcher = "armed"))

\* the reader failed, and a local connection accepted afterwards was
\* forwarded to its end without an error while the session stayed open
C32_Witness ==
    /\ reader = "failed"
    /\ psess = "open"
    /\ hs[1].pc = "done"
    /\ hs[1].err = NoErr
    /\ \E i, j \in DOMAIN events :
          /\ events[i] = ReadLengthFailed
          /\ events[j].Type = TypeSOCKS5ConnectionOpened
          /\ i < j

\* C37: between relay connections, while the context is not cancelled, no
\* background task of an earlier relay connection is left: no task waits
\* for the context to close the connection, no session-close watcher waits
\* or runs, and the control-channel reader has returned.
C37_NoBackgroundTaskOutlivesConnection ==
    (BetweenConnections /\ ~ctxDone) =>
        /\ ctxWatchers = 0
        /\ staleWatchers = 0
        /\ watcher \notin {"armed", "flagged"}
        /\ reader # "run"

\* while the context is not cancelled, the tasks of every relay connection
\* accepted so far are waiting for it
ContextWatchersAccumulate ==
    ~ctxDone => ctxWatchers = contextWatchersStarted * (dials - (IF dial = "pending" THEN 1 ELSE 0))

\* two relay connections are over and the listener waits for the next one:
\* the four tasks of the two connections still wait for the context
ContextWatchersLeft ==
    /\ lpc = "accept"
    /\ dials = 2
    /\ dial = "none"
    /\ ~ctxDone
    /\ ctxWatchers = 4

\* C36: at most one task is inside the callback at any time.
C36_CallbackMutuallyExclusive == Cardinality(ivIn) <= 1

\* the invocations of the task running the call exclude each other, and
\* forwarding-inactive and relay-disconnected exclude the handlers'
CallTaskInvocationsSequential ==
    (CallTask \in ivIn /\ ivTask[CallTask] \in {"inactive", "relay disconnected"})
        => ivIn \cap Handlers = {}

============================================================================
